---------------------------- MODULE Spec2Model ----------------------------
(***************************************************************************)
(* Radio time-code decoders RCget_dcf77.py, RCget_msf.py and RCget_jjy.py. *)
(*                                                                         *)
(* The decode loop is modelled one sampled second at a time.  The shift    *)
(* buffers tcA / tcB hold the characters " ", "0" and "1" exactly as the   *)
(* Python strings do; the field extraction uses the source's indices.      *)
(* Instants (mktime / gmtime values) are held in MINUTES since 2000-01-01  *)
(* instead of seconds: every instant the decoders build has seconds = 0,   *)
(* so 3600 s is written 60 and 7200 s is written 120, and the values stay  *)
(* inside TLC's 32 bit integers.                                           *)
(* A Python name that has not been assigned yet holds Unbound; reading it  *)
(* raises NameError / UnboundLocalError, which ends the run (pc = "crash").*)
(* Floating point results (mean, st_dev, round) are computed exactly, on   *)
(* integer numerators and denominators.                                    *)
(***************************************************************************)
EXTENDS Integers, Sequences, FiniteSets, TLC

VARIABLES
    proto,      \* which decoder runs: "dcf77", "msf" or "jjy"
    pc,         \* position of the run
    enable,     \* setting: "off", "high" or "low"
    delta_t,    \* setting (None or a fixed offset), then the measured offset
    handler,    \* handler on rc_signal.irq: "None" or "isr_trig"
    delta,      \* delta[0]: tick of the last edge, NoEdge once collected
    deltas, shifts, shift,   \* edge offsets, the same shifted by 500 ms
    count, period, abort,    \* get_deltas' countdown, window, noise abort
    tcA, tcB,   \* shift buffers
    elapsed,    \* the loop's seconds counter
    yrs, mons, dys, dsts, doys, mods,   \* candidate histories
    match,      \* match flags
    yr, mon, dy, ds, hr, mn, mod,       \* values decoded from the frame
    year, month, day, dst, doy,         \* accepted values
    rc_sync,    \* success flag
    rtc,        \* the tuple written to the RTC (<<>>: nothing written)
    result,     \* what RCget returned (<<>>: None)
    secs,       \* seconds sampled since the decode loop was entered
    samples,    \* the sample buffer: samples[0] (index) and the slots the
                \* running second has written (fresh)
    sample,     \* the sampling timer: "None" or "Timer"
    ticks,      \* ticks_ms() % 1000 as the set-clock loop last read it
    tx          \* the transmitter: what is on air, and how it was received

\* the variables of the settings and of phase acquisition
acqVars == <<enable, delta_t, handler, delta, deltas, shifts, shift, count,
             period, abort>>

\* the variables of the decode loop
loopVars == <<tcA, tcB, elapsed, yrs, mons, dys, dsts, doys, mods, match,
              yr, mon, dy, ds, hr, mn, mod, year, month, day, dst, doy,
              rc_sync, rtc, secs, samples, sample>>

vars == <<proto, pc, acqVars, loopVars, ticks, result, tx>>

\* the value of a Python name that has not been assigned yet
Unbound == -1

\* delta_t = None
None == -1

\* delta = array('i',[-1]): no edge waits to be collected
NoEdge == -1

----------------------------------------------------------------------------
(* Python string and list primitives                                       *)

\* s[i] for a Python index i (negative counts from the end)
PyAt(s, i) == IF i < 0 THEN s[Len(s) + i + 1] ELSE s[i + 1]

\* s[i:j] for Python indices (negative count from the end)
PySlice(s, i, j) ==
    LET lo == IF i < 0 THEN Len(s) + i ELSE i
        hi == IF j < 0 THEN Len(s) + j ELSE j
    IN  SubSeq(s, lo + 1, hi)

\* s[-n:]
PyLast(s, n) == IF Len(s) <= n THEN s ELSE SubSeq(s, Len(s) - n + 1, Len(s))

\* s.count(x)
PyCount(s, x) == Cardinality({i \in 1..Len(s) : s[i] = x})

\* set(s)
PySet(s) == {s[i] : i \in 1..Len(s)}

\* a variant that leaves the buffer in arrival order
Unreversed(s) == s

\* ''.join(reversed(s))
Reversed(s) == [i \in 1..Len(s) |-> s[Len(s) + 1 - i]]

\* s.endswith(p)
EndsWith(s, p) == Len(s) >= Len(p) /\ SubSeq(s, Len(s) - Len(p) + 1, Len(s)) = p

\* int(s, 2) of a string of "0"/"1" characters
RECURSIVE Int2(_)
Int2(s) ==
    IF Len(s) = 0 THEN 0
    ELSE 2 * Int2(SubSeq(s, 1, Len(s) - 1)) + (IF s[Len(s)] = "1" THEN 1 ELSE 0)

\* a variant that writes a blank for a bit that reads 0
StrOrBlank(b) == IF b = 1 THEN "1" ELSE " "

\* str(b) of a classified bit
Str(b) == IF b = 1 THEN "1" ELSE "0"

----------------------------------------------------------------------------
(* time.mktime / time.gmtime (MicroPython, epoch 2000), in minutes         *)

IsLeap(y) == y % 4 = 0 /\ (y % 100 # 0 \/ y % 400 = 0)

\* leap years in 2000..y-1
LeapsBefore(y) == ((y - 1) \div 4 - (y - 1) \div 100 + (y - 1) \div 400) - 484

\* days from 2000-01-01 to y-01-01
DaysBeforeYear(y) == 365 * (y - 2000) + LeapsBefore(y)

DaysInMonth(y, m) ==
    IF m = 2 THEN (IF IsLeap(y) THEN 29 ELSE 28)
    ELSE IF m \in {4, 6, 9, 11} THEN 30 ELSE 31

RECURSIVE DaysBeforeMonth(_, _)
DaysBeforeMonth(y, m) ==
    IF m <= 1 THEN 0 ELSE DaysBeforeMonth(y, m - 1) + DaysInMonth(y, m - 1)

\* mktime((year, month, day, hour, minute, 0, 0, 0, 0)): the tuple is
\* normalised, so a month outside 1..12 carries into the year and day, hour
\* and minute outside their ranges simply add to the instant.
MkTime(y0, m0, d0, h0, mi0) ==
    LET y == y0 + (m0 - 1) \div 12
        m == ((m0 - 1) % 12) + 1
    IN  (DaysBeforeYear(y) + DaysBeforeMonth(y, m) + (d0 - 1)) * 1440
        + h0 * 60 + mi0

\* the year that holds day number days (days since 2000-01-01)
YearOfDay(days) ==
    CHOOSE yy \in 1999..2200 :
        DaysBeforeYear(yy) <= days /\ days < DaysBeforeYear(yy + 1)

\* the month of year y that holds its day number yd (0 = 1 January)
MonthOfDay(y, yd) ==
    CHOOSE mm \in 1..12 :
        DaysBeforeMonth(y, mm) <= yd
        /\ yd < DaysBeforeMonth(y, mm) + DaysInMonth(y, mm)

GmFields(t, y, yd, m) ==
    <<y, m, yd - DaysBeforeMonth(y, m) + 1, (t % 1440) \div 60, t % 60, yd + 1>>

GmInYear(t, y, yd) == GmFields(t, y, yd, MonthOfDay(y, yd))

GmOfYear(t, y) == GmInYear(t, y, t \div 1440 - DaysBeforeYear(y))

\* gmtime(t): <<year, month, day, hour, minute, yearday>>
GmTime(t) == GmOfYear(t, YearOfDay(t \div 1440))

\* 31-(5*year//4+4)%7 and 31-(5*year//4+1)%7: the last Sundays of March
\* and October
LastSunMar(y) == 31 - (((5 * y) \div 4 + 4) % 7)

\* a variant that uses March's formula for October
LastSunOctAsMar(y) == 31 - (((5 * y) \div 4 + 4) % 7)

LastSunOct(y) == 31 - (((5 * y) \div 4 + 1) % 7)

----------------------------------------------------------------------------
(* The transmitters (the environment).  A frame is the 60 seconds of one   *)
(* minute: A[s+1], B[s+1] are the two classified bits the sampler yields   *)
(* in second s.  f holds the digits put on air; parity bits are computed   *)
(* from the digits and flipped where f.pDate / f.pTime say so.             *)

Bit(v, i) == (v \div (2 ^ i)) % 2

Ones(bits, S) == Cardinality({s \in S : bits[s] = 1})

\* DCF77: second s carries bit s, least significant bit first; no pulse in
\* second 59.  P1, P2, P3 are even parity.
DcfData(f) ==
    [s \in 0..59 |->
        IF s = 17 THEN f.ds
        ELSE IF s = 18 THEN (1 - f.ds + f.pZone) % 2
        ELSE IF s = 20 THEN 1
        ELSE IF s \in 21..24 THEN Bit(f.mU, s - 21)
        ELSE IF s \in 25..27 THEN Bit(f.mT, s - 25)
        ELSE IF s \in 29..32 THEN Bit(f.hU, s - 29)
        ELSE IF s \in 33..34 THEN Bit(f.hT, s - 33)
        ELSE IF s \in 36..39 THEN Bit(f.dU, s - 36)
        ELSE IF s \in 40..41 THEN Bit(f.dT, s - 40)
        ELSE IF s \in 45..48 THEN Bit(f.moU, s - 45)
        ELSE IF s = 49 THEN Bit(f.moT, 0)
        ELSE IF s \in 50..53 THEN Bit(f.yU, s - 50)
        ELSE IF s \in 54..57 THEN Bit(f.yT, s - 54)
        ELSE 0]

DcfFrame(f) ==
    LET d == DcfData(f)
        a == [s \in 0..59 |->
                IF s = 28 THEN (Ones(d, 21..27) + f.pTime) % 2
                ELSE IF s = 35 THEN Ones(d, 29..34) % 2
                ELSE IF s = 58 THEN (Ones(d, 36..57) + f.pDate) % 2
                ELSE d[s]]
    IN  [A |-> [i \in 1..60 |-> a[i - 1]],
         B |-> [i \in 1..60 |-> IF i = 60 THEN 0 ELSE 1]]

\* MSF: most significant bit first; seconds 52..59 carry 01111110 in bit A;
\* 54B, 55B, 57B are odd parity over year, month+day, hour+minute.
MsfData(f) ==
    [s \in 0..59 |->
        IF s = 0 THEN 1
        ELSE IF s \in 17..20 THEN Bit(f.yT, 20 - s)
        ELSE IF s \in 21..24 THEN Bit(f.yU, 24 - s)
        ELSE IF s = 25 THEN Bit(f.moT, 0)
        ELSE IF s \in 26..29 THEN Bit(f.moU, 29 - s)
        ELSE IF s \in 30..31 THEN Bit(f.dT, 31 - s)
        ELSE IF s \in 32..35 THEN Bit(f.dU, 35 - s)
        ELSE IF s \in 39..40 THEN Bit(f.hT, 40 - s)
        ELSE IF s \in 41..44 THEN Bit(f.hU, 44 - s)
        ELSE IF s \in 45..47 THEN Bit(f.mT, 47 - s)
        ELSE IF s \in 48..51 THEN Bit(f.mU, 51 - s)
        ELSE IF s \in 53..58 THEN 1
        ELSE 0]

MsfFrame(f) ==
    LET d == MsfData(f)
        b == [s \in 0..59 |->
                IF s = 0 THEN 1
                ELSE IF s = 54 THEN (Ones(d, 17..24) + 1 + f.pDate) % 2
                ELSE IF s = 55 THEN (Ones(d, 25..35) + 1 + f.pDate) % 2
                ELSE IF s = 56 THEN 1
                ELSE IF s = 57 THEN (Ones(d, 39..51) + 1 + f.pTime) % 2
                ELSE 0]
    IN  [A |-> [i \in 1..60 |-> d[i - 1]],
         B |-> [i \in 1..60 |-> b[i - 1]]]

\* JJY: most significant bit first; bit B is 1 in the marker seconds
\* 0, 9, 19, ..., 59 (where bit A reads 1 as well); PA1 (second 36) and
\* PA2 (second 37) are even parity over the hour and the minute.
JjyMarkers == {0, 9, 19, 29, 39, 49, 59}

JjyData(f) ==
    [s \in 0..59 |->
        IF s \in JjyMarkers THEN 1
        ELSE IF s \in 1..3 THEN Bit(f.mT, 3 - s)
        ELSE IF s \in 5..8 THEN Bit(f.mU, 8 - s)
        ELSE IF s \in 12..13 THEN Bit(f.hT, 13 - s)
        ELSE IF s \in 15..18 THEN Bit(f.hU, 18 - s)
        ELSE IF s \in 22..23 THEN Bit(f.doyH, 23 - s)
        ELSE IF s \in 25..28 THEN Bit(f.doyT, 28 - s)
        ELSE IF s \in 30..33 THEN Bit(f.doyU, 33 - s)
        ELSE IF s \in 41..44 THEN Bit(f.yT, 44 - s)
        ELSE IF s \in 45..48 THEN Bit(f.yU, 48 - s)
        ELSE 0]

JjyFrame(f) ==
    LET d == JjyData(f)
        a == [s \in 0..59 |->
                IF s = 36 THEN Ones(d, 12..18) % 2
                ELSE IF s = 37 THEN (Ones(d, 1..8) + f.pTime) % 2
                ELSE d[s]]
    IN  [A |-> [i \in 1..60 |-> a[i - 1]],
         B |-> [i \in 1..60 |-> IF (i - 1) \in JjyMarkers THEN 1 ELSE 0]]

----------------------------------------------------------------------------
(* One decode cycle.  S is the record of the loop's variables; S.out tells *)
(* how the cycle ends: "next" (the loop goes on), "set" (RTC written,      *)
(* break), "ambig" (MSF: break in the repeated hour) or "crash" (an        *)
(* uncaught NameError / IndexError).                                       *)

Ones1(s) == PyCount(s, "1")

AllFalse(n) == [i \in 1..n |-> FALSE]
AllTrue(n) == [i \in 1..n |-> TRUE]

\* all(match)
All(m) == \A i \in 1..Len(m) : m[i]

\* a variant that accepts a value at its second occurrence
RepeatsTwice(h, v) == PyCount(h, v) = 2

\* the primary rule: if yrs.count(yr) == 3 (and the same test for the
\* other fields)
Repeats(h, v) == PyCount(h, v) = 3

\* yr = ...; if 23 < yr < 100: yrs = yrs[-4:] + [yr]; if yrs.count(yr) == 3: ...
YearObs(S, v) ==
    LET S1 == [S EXCEPT !.yr = v]
        h  == PyLast(S.yrs, 4) \o <<v>>
    IN  IF 23 < v /\ v < 100
        THEN IF Repeats(h, v)
             THEN [S1 EXCEPT !.yrs = h, !.year = 2000 + v, !.match[1] = TRUE]
             ELSE [S1 EXCEPT !.yrs = h]
        ELSE S1

\* mon = ...; if 0 < mon <= 12: mons = mons[-4:] + [mon]; ...
MonObs(S, v) ==
    LET S1 == [S EXCEPT !.mon = v]
        h  == PyLast(S.mons, 4) \o <<v>>
    IN  IF 0 < v /\ v <= 12
        THEN IF Repeats(h, v)
             THEN [S1 EXCEPT !.mons = h, !.month = v, !.match[2] = TRUE]
             ELSE [S1 EXCEPT !.mons = h]
        ELSE S1

\* a variant that appends the day without trimming the history first
DayObsKeepsAll(S, v) ==
    LET S1 == [S EXCEPT !.dy = v]
        h  == S.dys \o <<v>>
    IN  IF 0 < v /\ v <= 31
        THEN IF Repeats(h, v)
             THEN [S1 EXCEPT !.dys = h, !.day = v, !.match[3] = TRUE]
             ELSE [S1 EXCEPT !.dys = h]
        ELSE S1

\* dy = ...; if 0 < dy <= 31: dys = dys[-4:] + [dy]; ...
DayObs(S, v) ==
    LET S1 == [S EXCEPT !.dy = v]
        h  == PyLast(S.dys, 4) \o <<v>>
    IN  IF 0 < v /\ v <= 31
        THEN IF Repeats(h, v)
             THEN [S1 EXCEPT !.dys = h, !.day = v, !.match[3] = TRUE]
             ELSE [S1 EXCEPT !.dys = h]
        ELSE S1

\* ds = int(tcA[42]); dsts = dsts[-4:] + [ds]; ...   (DCF77, no range check)
DstObs(S, v) ==
    LET S1 == [S EXCEPT !.ds = v]
        h  == PyLast(S.dsts, 4) \o <<v>>
    IN  IF Repeats(h, v)
        THEN [S1 EXCEPT !.dsts = h, !.dst = v, !.match[4] = TRUE]
        ELSE [S1 EXCEPT !.dsts = h]

\* dy = ...; if 0 < dy <= 366: doys = doys[-4:] + [dy]; ...   (JJY)
DoyObs(S, v) ==
    LET S1 == [S EXCEPT !.dy = v]
        h  == PyLast(S.doys, 4) \o <<v>>
    IN  IF 0 < v /\ v <= 366
        THEN IF Repeats(h, v)
             THEN [S1 EXCEPT !.doys = h, !.doy = v, !.match[2] = TRUE]
             ELSE [S1 EXCEPT !.doys = h]
        ELSE S1

\* the histories the rollover reset truncates and the shortcut inspects
Hists(p, S) ==
    IF p = "dcf77" THEN <<S.yrs, S.mons, S.dys, S.dsts>>
    ELSE IF p = "msf" THEN <<S.yrs, S.mons, S.dys>>
    ELSE <<S.yrs, S.doys>>

\* a variant that truncates the histories and leaves the match flags alone
RolloverKeepsFlags(p, S) ==
    IF p = "dcf77"
    THEN [S EXCEPT !.yrs = PyLast(S.yrs, 1), !.mons = PyLast(S.mons, 1),
                   !.dys = PyLast(S.dys, 1), !.dsts = PyLast(S.dsts, 1)]
    ELSE IF p = "msf"
    THEN [S EXCEPT !.yrs = PyLast(S.yrs, 1), !.mons = PyLast(S.mons, 1),
                   !.dys = PyLast(S.dys, 1)]
    ELSE [S EXCEPT !.yrs = PyLast(S.yrs, 1), !.doys = PyLast(S.doys, 1)]

\* if mod < 5: yrs = yrs[-1:] ...; match = [False]*n
Rollover(p, S) ==
    IF p = "dcf77"
    THEN [S EXCEPT !.yrs = PyLast(S.yrs, 1), !.mons = PyLast(S.mons, 1),
                   !.dys = PyLast(S.dys, 1), !.dsts = PyLast(S.dsts, 1),
                   !.match = AllFalse(4)]
    ELSE IF p = "msf"
    THEN [S EXCEPT !.yrs = PyLast(S.yrs, 1), !.mons = PyLast(S.mons, 1),
                   !.dys = PyLast(S.dys, 1), !.match = AllFalse(3)]
    ELSE [S EXCEPT !.yrs = PyLast(S.yrs, 1), !.doys = PyLast(S.doys, 1),
                   !.match = AllFalse(2)]

\* hr = ...; mn = ...; if hr < 24 and mn < 60: mod = hr*60 + mn; ...
TimeObs(p, S, h, m) ==
    LET S1 == [S EXCEPT !.hr = h, !.mn = m]
        v  == h * 60 + m
        S2 == [S1 EXCEPT !.mod = v,
                         !.mods = PyLast([i \in 1..Len(S.mods) |->
                                              S.mods[i] + S.elapsed \div 60], 4)
                                  \o <<v>>,
                         !.elapsed = 0]
    IN  IF h < 24 /\ m < 60
        THEN IF v < 5 THEN Rollover(p, S2) ELSE S2
        ELSE S1

\* a variant that takes the shortcut on histories of a single entry
ShortcutCondLoose(p, S) ==
    /\ \A i \in 1..Len(Hists(p, S)) : Len(Hists(p, S)[i]) > 0
    /\ \A i \in 1..Len(Hists(p, S)) : Cardinality(PySet(Hists(p, S)[i])) = 1

\* min([len(yrs), ...]) > 1 and max(len(set(yrs)), ...) == 1
ShortcutCond(p, S) ==
    LET hs == Hists(p, S)
    IN  /\ \A i \in 1..Len(hs) : Len(hs[i]) > 1
        /\ \A i \in 1..Len(hs) : Cardinality(PySet(hs[i])) = 1

\* a variant that sets every flag as soon as each history holds a single
\* distinct value, a history of one entry included
ShortcutEager(p, S) ==
    IF ~ShortcutCondLoose(p, S) \/ Unbound \in {S.yr, S.dy} THEN S
    ELSE [S EXCEPT !.year = 2000 + S.yr, !.match = AllTrue(Len(S.match))]

\* year, month, day, dst = 2000+yr, mon, dy, ds; match = [True, ...]
Shortcut(p, S) ==
    IF ~ShortcutCond(p, S) THEN S
    ELSE IF p = "dcf77"
    THEN IF Unbound \in {S.yr, S.mon, S.dy, S.ds} THEN [S EXCEPT !.out = "crash"]
         ELSE [S EXCEPT !.year = 2000 + S.yr, !.month = S.mon, !.day = S.dy,
                        !.dst = S.ds, !.match = AllTrue(4)]
    ELSE IF p = "msf"
    THEN IF Unbound \in {S.yr, S.mon, S.dy} THEN [S EXCEPT !.out = "crash"]
         ELSE [S EXCEPT !.year = 2000 + S.yr, !.month = S.mon, !.day = S.dy,
                        !.match = AllTrue(3)]
    ELSE IF Unbound \in {S.yr, S.dy} THEN [S EXCEPT !.out = "crash"]
         ELSE [S EXCEPT !.year = 2000 + S.yr, !.doy = S.dy, !.match = AllTrue(2)]

\* (len(mods) > 1 and len(set(mods)) == 1)
ModsAgree(S) == Len(S.mods) > 1 /\ Cardinality(PySet(S.mods)) = 1

\* the RTC tuple (utc[0], utc[1], utc[2], 0, utc[3], utc[4], 0, 0), without
\* the constant fields
RtcTuple(utc) == <<utc[1], utc[2], utc[3], utc[4], utc[5]>>

\* DCF77: utc = gmtime(mktime((year, month, day, hr-1-dst, mn, 0, 0,0,0)))
DcfLock(S) ==
    [S EXCEPT !.rtc = RtcTuple(GmTime(MkTime(S.year, S.month, S.day,
                                             S.hr - 1 - S.dst, S.mn))),
              !.rc_sync = TRUE, !.out = "set"]

\* a variant that declines only in the last hour before the change
MsfLockLastHour(S) ==
    LET RCtime == MkTime(S.year, S.month, S.day, S.hr, S.mn)
        fwd    == MkTime(S.year, 3, LastSunMar(S.year), 1, 0)
        back   == MkTime(S.year, 10, LastSunOct(S.year), 2, 0)
    IN  IF back - 60 < RCtime /\ RCtime < back
        THEN [S EXCEPT !.out = "ambig"]
        ELSE [S EXCEPT !.rtc = RtcTuple(GmTime(RCtime -
                                   (IF fwd <= RCtime /\ RCtime < back THEN 60 ELSE 0))),
                       !.rc_sync = TRUE, !.out = "set"]

\* MSF: RCtime, fwd, back; break in the repeated hour, else write
MsfLock(S) ==
    LET RCtime == MkTime(S.year, S.month, S.day, S.hr, S.mn)
        fwd    == MkTime(S.year, 3, LastSunMar(S.year), 1, 0)
        back   == MkTime(S.year, 10, LastSunOct(S.year), 2, 0)
    IN  IF back - 120 < RCtime /\ RCtime < back
        THEN [S EXCEPT !.out = "ambig"]
        ELSE [S EXCEPT !.rtc = RtcTuple(GmTime(RCtime -
                                   (IF fwd <= RCtime /\ RCtime < back THEN 60 ELSE 0))),
                       !.rc_sync = TRUE, !.out = "set"]

\* JJY: month_doys (a tuple indexed 0..12)
MonthDoys(y) ==
    IF y % 4 # 0
    THEN <<0, 31, 59, 90, 120, 151, 181, 212, 243, 273, 304, 334, 365>>
    ELSE <<0, 31, 60, 91, 121, 152, 182, 213, 244, 274, 305, 335, 366>>

\* month, day = 1, doy; while month_doys[month] < doy: day = ...; month += 1
\* <<>> stands for the IndexError of month_doys[13]
RECURSIVE DoyWalk(_, _, _, _)
DoyWalk(tbl, m, d, n) ==
    IF m + 1 > Len(tbl) THEN <<>>
    ELSE IF tbl[m + 1] < n THEN DoyWalk(tbl, m + 1, n - tbl[m + 1], n)
    ELSE <<m, d>>

\* JJY: utc = gmtime(mktime((year, month, day, hour-9, minute+1, 0, 0,0,0)))
JjyLock(S) ==
    LET md == DoyWalk(MonthDoys(S.year), 1, S.doy, S.doy)
    IN  IF md = <<>> THEN [S EXCEPT !.out = "crash"]
        ELSE [S EXCEPT !.month = md[1], !.day = md[2],
                       !.rtc = RtcTuple(GmTime(MkTime(S.year, md[1], md[2],
                                                      S.hr - 9, S.mn + 1))),
                       !.rc_sync = TRUE, !.out = "set"]

Lock(p, S) ==
    IF p = "dcf77" THEN DcfLock(S)
    ELSE IF p = "msf" THEN MsfLock(S)
    ELSE JjyLock(S)

\* if all(match) and ((len(mods)>1 and len(set(mods))==1) or mods.count(mod)>=3)
\* Python evaluates left to right and stops early: mod is read only when
\* all(match) holds and the first disjunct is false.
TrySet(p, S) ==
    IF S.out = "crash" \/ ~All(S.match) THEN S
    ELSE IF ModsAgree(S) THEN Lock(p, S)
    ELSE IF S.mod = Unbound THEN [S EXCEPT !.out = "crash"]
    ELSE IF PyCount(S.mods, S.mod) >= 3 THEN Lock(p, S)
    ELSE S

\* the part of the cycle under the hour & minute parity check
TimeBlock(p, S, h, m) == TrySet(p, Shortcut(p, TimeObs(p, S, h, m)))

\* BCD: int(tens, 2)*10 + int(units, 2)
Bcd2(t, u) == Int2(t) * 10 + Int2(u)

\* DCF77, lines 211-292; b is tcA after ''.join(reversed(tcA))
DcfCycle(S, a) ==
    LET b  == Reversed(a)
        dateOk == PyAt(b, 23) # " " /\ Ones1(PySlice(b, 0, 24)) % 2 = 0
        S1 == IF dateOk /\ ~S.match[1]
              THEN YearObs(S, Bcd2(PySlice(b, 2, 6), PySlice(b, 6, 10)))
              ELSE S
        S2 == IF dateOk /\ ~S1.match[2]
              THEN MonObs(S1, Bcd2(<<PyAt(b, 10)>>, PySlice(b, 11, 15)))
              ELSE S1
        S3 == IF dateOk /\ ~S2.match[3]
              THEN DayObs(S2, Bcd2(PySlice(b, 18, 20), PySlice(b, 20, 24)))
              ELSE S2
        S4 == IF ~S3.match[4] /\ PyAt(b, 42) # " "
                 /\ Ones1(PySlice(b, 41, 43)) % 2 = 1
              THEN DstObs(S3, Int2(<<PyAt(b, 42)>>))
              ELSE S3
    IN  IF PyAt(b, 38) # " " /\ Ones1(PySlice(b, 24, 31)) % 2 = 0
           /\ Ones1(PySlice(b, 31, 39)) % 2 = 0
        THEN TimeBlock("dcf77", S4, Bcd2(PySlice(b, 25, 27), PySlice(b, 27, 31)),
                                    Bcd2(PySlice(b, 32, 35), PySlice(b, 35, 39)))
        ELSE S4

\* MSF, lines 204-280
MsfCycle(S, a, b) ==
    LET S1 == IF ~S.match[1] /\ PyAt(a, -43) # " "
                 /\ (Ones1(PySlice(a, -43, -35)) + Int2(<<PyAt(b, -6)>>)) % 2 = 1
              THEN YearObs(S, Bcd2(PySlice(a, -43, -39), PySlice(a, -39, -35)))
              ELSE S
        mdOk == PyAt(a, -35) # " "
                /\ (Ones1(PySlice(a, -35, -24)) + Int2(<<PyAt(b, -5)>>)) % 2 = 1
        S2 == IF mdOk /\ ~S1.match[2]
              THEN MonObs(S1, Bcd2(<<PyAt(a, -35)>>, PySlice(a, -34, -30)))
              ELSE S1
        S3 == IF mdOk /\ ~S2.match[3]
              THEN DayObs(S2, Bcd2(PySlice(a, -30, -28), PySlice(a, -28, -24)))
              ELSE S2
    IN  IF PyAt(a, -21) # " "
           /\ (Ones1(PySlice(a, -21, -8)) + Int2(<<PyAt(b, -3)>>)) % 2 = 1
        THEN TimeBlock("msf", S3, Bcd2(PySlice(a, -21, -19), PySlice(a, -19, -15)),
                                  Bcd2(PySlice(a, -15, -12), PySlice(a, -12, -8)))
        ELSE S3

\* JJY, lines 209-282
JjyCycle(S, a) ==
    LET S1 == IF ~S.match[1] /\ PyAt(a, -20) # " "
              THEN YearObs(S, Bcd2(PySlice(a, -20, -16), PySlice(a, -16, -12)))
              ELSE S
        S2 == IF ~S1.match[2] /\ PyAt(a, -39) # " "
              THEN DoyObs(S1, Int2(PySlice(a, -39, -37)) * 100
                              + Bcd2(PySlice(a, -36, -32), PySlice(a, -31, -27)))
              ELSE S1
    IN  IF PyAt(a, -60) # " "
           /\ Ones1(PySlice(a, -49, -42) \o <<PyAt(a, -25)>>) % 2 = 0
           /\ Ones1(PySlice(a, -60, -52) \o <<PyAt(a, -24)>>) % 2 = 0
        THEN TimeBlock("jjy", S2, Bcd2(PySlice(a, -49, -47), PySlice(a, -46, -42)),
                                  Bcd2(PySlice(a, -60, -57), PySlice(a, -56, -52)))
        ELSE S2

----------------------------------------------------------------------------
(* The phase estimator (dcf77 lines 64-71 and 138-154).  data is a list of *)
(* integers; a quotient is never formed: x / n > y is decided as x > y * n.*)

RECURSIVE Sum(_)
Sum(data) == IF Len(data) = 0 THEN 0 ELSE Head(data) + Sum(Tail(data))

RECURSIVE SumSq(_)
SumSq(data) ==
    IF Len(data) = 0 THEN 0 ELSE Head(data) * Head(data) + SumSq(Tail(data))

Max(data) == CHOOSE x \in PySet(data) : \A y \in PySet(data) : y <= x
Min(data) == CHOOSE x \in PySet(data) : \A y \in PySet(data) : x <= y

\* the estimate raises ZeroDivisionError: with one value st_dev divides by
\* len(data)-1 (line 141), with none mean divides by len(data) (line 153)
StDevFails(data) == Len(data) < 2

\* st_dev(data) > 5, for len(data) >= 2:
\*   sum((x - mean)**2) / (n-1) > 25  <=>  n*sum(x*x) - sum(x)**2 > 25*n*(n-1)
StDevOver5(data) ==
    LET n == Len(data)
    IN  n * SumSq(data) - Sum(data) * Sum(data) > 25 * n * (n - 1)

\* data.remove(x): the first occurrence goes
Remove(data, x) ==
    LET i == CHOOSE j \in 1..Len(data) :
                 data[j] = x /\ \A k \in 1..(j - 1) : data[k] # x
    IN  SubSeq(data, 1, i - 1) \o SubSeq(data, i + 1, Len(data))

\* a variant that removes the maximum and the minimum in one iteration
del_outlrBoth(data) == Remove(Remove(data, Max(data)), Min(data))

\* outlier = max(data) if mid(data) > mean(data) else min(data)
\*   (max + min)/2 > sum/n  <=>  (max + min)*n > 2*sum
del_outlr(data) ==
    Remove(data, IF (Max(data) + Min(data)) * Len(data) > 2 * Sum(data)
                 THEN Max(data) ELSE Min(data))

\* while st_dev(data) > 5 and len(data) > 8: del_outlr(data)
RECURSIVE Cleaned(_)
Cleaned(data) ==
    IF StDevOver5(data) /\ Len(data) > 8 THEN Cleaned(del_outlr(data)) ELSE data

\* round(num / den) for num >= 0, den > 0: halves go to the even neighbour
Round(num, den) ==
    LET q == num \div den
        r == num % den
    IN  IF 2 * r > den THEN q + 1
        ELSE IF 2 * r < den THEN q
        ELSE q + (q % 2)

\* a variant that takes the shifted list on a tie as well
ChosenOnTie(ds0, ss0) ==
    IF Len(Cleaned(ds0)) <= Len(Cleaned(ss0))
    THEN [deltas |-> Cleaned(ss0), shift |-> 500]
    ELSE [deltas |-> Cleaned(ds0), shift |-> 0]

\* if len(deltas) < len(shifts): deltas = [x for x in shifts]; shift = 500
\* (after both lists were cleaned)
Chosen(ds0, ss0) ==
    IF Len(Cleaned(ds0)) < Len(Cleaned(ss0))
    THEN [deltas |-> Cleaned(ss0), shift |-> 500]
    ELSE [deltas |-> Cleaned(ds0), shift |-> 0]

\* deltas.sort()
RECURSIVE Sorted(_)
Sorted(data) ==
    IF Len(data) = 0 THEN <<>>
    ELSE <<Min(data)>> \o Sorted(Remove(data, Min(data)))

\* round((mean(deltas) - shift)%1000): the float remainder has the sign of
\* the divisor, so it lies in [0, 1000) before it is rounded
PhaseOf(data, sh) ==
    LET n == Len(data)
    IN  Round((Sum(data) - sh * n) % (1000 * n), n)

----------------------------------------------------------------------------
(* What the transmitter puts on air.  Minute k of a run carries the civil  *)
(* time base + k; a mode says how the frame is received.                   *)

Modes == {"ok", "badDate", "badTime", "yrBad", "hrBad", "dayAlt"}

\* the digits of the civil time c (a gmtime tuple), summer-time flag z
DigitsOf(c, z) ==
        [yT |-> (c[1] % 100) \div 10, yU |-> c[1] % 10,
         moT |-> c[2] \div 10, moU |-> c[2] % 10,
         dT |-> c[3] \div 10, dU |-> c[3] % 10,
         hT |-> c[4] \div 10, hU |-> c[4] % 10,
         mT |-> c[5] \div 10, mU |-> c[5] % 10,
         doyH |-> c[6] \div 100, doyT |-> (c[6] \div 10) % 10, doyU |-> c[6] % 10,
         ds |-> z, pDate |-> 0, pTime |-> 0, pZone |-> 0]

\* the digits of the civil time t (minutes)
Digits(t, z) == DigitsOf(GmTime(t), z)

\* "badDate": the date parity fails (JJY has none: year and day of year
\*            read 0);  "badTime": the minute parity fails;
\* "yrBad":   the year reads 0x with consistent parity;
\* "hrBad":   the hour reads 3x with consistent parity;
\* "dayAlt":  the day (JJY: the day of the year) reads another valid value;
\* "noise":   every parity fails, and the DCF77 zone bits read alike.
Received(p, f, mode) ==
    IF mode = "noise" THEN [f EXCEPT !.pDate = 1, !.pTime = 1, !.pZone = 1]
    ELSE IF mode = "badDate"
    THEN IF p = "jjy"
         THEN [f EXCEPT !.yT = 0, !.yU = 0, !.doyH = 0, !.doyT = 0, !.doyU = 0]
         ELSE [f EXCEPT !.pDate = 1]
    ELSE IF mode = "badTime" THEN [f EXCEPT !.pTime = 1]
    ELSE IF mode = "yrBad" THEN [f EXCEPT !.yT = 0]
    ELSE IF mode = "hrBad" THEN [f EXCEPT !.hT = 3]
    ELSE IF mode = "dayAlt"
    THEN [f EXCEPT !.dU = (f.dU + 1) % 8, !.doyU = (f.doyU + 1) % 8]
    ELSE f

Frame(p, f) ==
    IF p = "dcf77" THEN DcfFrame(f)
    ELSE IF p = "msf" THEN MsfFrame(f)
    ELSE JjyFrame(f)

\* the digits and parity flips of minute k
OnAir(p, sc, k, mode) == Received(p, Digits(sc.base + k, sc.ds), mode)

----------------------------------------------------------------------------
(* Bounds and scenarios                                                    *)

\* the timeout setting, in minutes
timeout == 2

\* seconds of the decode loop that are explored
MaxSecs == 181

\* edges the receiver delivers during one phase measurement, at most
MaxEdges == 34

\* ticks of the sampling timer in one second, at most
MaxTicks == 46

\* longest edge list the phase estimator is applied to on its own
MaxPhaseEdges == 10

\* the second of the minute at which the decode loop is entered
StartPos == {1, 30}

\* ticks_ms() at the edges of the time code pulses of a whole run
EdgeTicks == {20100}

\* edge offsets the phase estimator is applied to on its own
PhaseVals == {0, 1, 500, 999}

\* the RTC of a board that has just been powered up (2021-01-01 00:00)
ColdRtc == MkTime(2021, 1, 1, 0, 0)

\* base: civil time carried by the first frame; ds: summer time flag on
\* air; now: the UTC instant at which the decode loop is entered, which a
\* board that was synchronised before holds in its RTC
Bases(p) ==
    IF p = "dcf77"
    THEN {[base |-> MkTime(2024, 3, 5, 10, 0), ds |-> 0,
           now |-> MkTime(2024, 3, 5, 8, 59)],
          [base |-> MkTime(2024, 3, 5, 23, 59), ds |-> 0,
           now |-> MkTime(2024, 3, 5, 22, 58)]}
    ELSE IF p = "msf"
    THEN {[base |-> MkTime(2024, 3, 5, 10, 0), ds |-> 0,
           now |-> MkTime(2024, 3, 5, 9, 59)],
          [base |-> MkTime(2024, 10, 27, 1, 10), ds |-> 1,
           now |-> MkTime(2024, 10, 27, 0, 9)],
          [base |-> MkTime(2024, 3, 5, 23, 59), ds |-> 0,
           now |-> MkTime(2024, 3, 5, 23, 58)]}
    ELSE {[base |-> MkTime(2024, 3, 5, 10, 0), ds |-> 0,
           now |-> MkTime(2024, 3, 5, 1, 0)],
          [base |-> MkTime(2024, 3, 5, 23, 59), ds |-> 0,
           now |-> MkTime(2024, 3, 5, 14, 59)]}

\* a scenario of the decode loop: what is on air, the RTC at entry (cold
\* or synchronised), the second of entry, the ways a minute can be received
Scenarios(p) ==
    {[base |-> b.base, ds |-> b.ds, cold |-> c,
      now |-> IF c THEN ColdRtc ELSE b.now, start |-> s, modes |-> Modes] :
        b \in Bases(p), c \in BOOLEAN, s \in StartPos}

\* the scenario of a whole run: a board that was synchronised before
\* enters the loop in second 1; a minute is received well or with its time
\* parity failing
RunScenarios(p) ==
    {[sc EXCEPT !.modes = {"ok", "badTime"}] :
        sc \in {x \in Scenarios(p) : /\ x.start = 1
                                     /\ ~x.cold
                                     /\ x.base = MkTime(2024, 3, 5, 10, 0)}}

\* the transmitter when the first second is about to be sampled
OnAirFirst(p, sc, mode) ==
    [sc |-> sc, k |-> 0, pos |-> sc.start, f |-> OnAir(p, sc, 0, mode)]

----------------------------------------------------------------------------
(* The state when the decode loop is entered (dcf77 lines 160-187)         *)

Blanks(n) == [i \in 1..n |-> " "]

\* samples = array('B', (0 for _ in range(45))); samples[0] is the index
SamplesLen == 45

\* len(samples)-1: the slots 1..N take the samples of a second
N == SamplesLen - 1

\* the buffer as created: index 0, nothing written by a running second
\* (the name is unbound before line 186, where nothing reads it)
NoSamples == [index |-> 0, fresh |-> {}]

NoSeed ==
    [yrs |-> <<>>, mons |-> <<>>, dys |-> <<>>, dsts |-> <<>>, doys |-> <<>>,
     mods |-> <<>>, year |-> Unbound, month |-> Unbound, day |-> Unbound,
     doy |-> Unbound]

\* fwd <= time() < back, for the RTC's year y0 (dcf77 lines 168-171)
Summer(now, y0) ==
    /\ MkTime(y0, 3, LastSunMar(y0), 1, 0) <= now
    /\ now < MkTime(y0, 10, LastSunOct(y0), 1, 0)

\* dcf77 lines 171-175; g is gmtime(time() + (3600 if fwd<=time()<back else 0))
SeedDcf(g, summer) ==
    [NoSeed EXCEPT !.yrs = <<g[1] % 100>>, !.mons = <<g[2]>>, !.dys = <<g[3]>>,
                   !.mods = <<(g[4] + 1) * 60 + g[5] + 1>>,
                   !.dsts = <<IF summer THEN 1 ELSE 0>>,
                   !.year = g[1], !.month = g[2], !.day = g[3]]

\* msf lines 167-169; g is gmtime()
SeedMsf(g) ==
    [NoSeed EXCEPT !.yrs = <<g[1] % 100>>, !.mons = <<g[2]>>, !.dys = <<g[3]>>,
                   !.mods = <<g[4] * 60 + g[5] + 1>>,
                   !.year = g[1], !.month = g[2], !.day = g[3]]

\* jjy lines 167-170; g is gmtime(time() + 9*3600)
SeedJjy(g) ==
    [NoSeed EXCEPT !.yrs = <<g[1] % 100>>, !.doys = <<g[6]>>,
                   !.mods = <<g[4] * 60 + g[5]>>,
                   !.year = g[1], !.doy = g[6]]

\* if gmtime()[0] > 2021: use the RTC time for the first set of values
Seed(p, now) ==
    IF ~(GmTime(now)[1] > 2021) THEN NoSeed
    ELSE IF p = "dcf77"
    THEN SeedDcf(GmTime(now + (IF Summer(now, GmTime(now)[1]) THEN 60 ELSE 0)),
                 Summer(now, GmTime(now)[1]))
    ELSE IF p = "msf" THEN SeedMsf(GmTime(now))
    ELSE SeedJjy(GmTime(now + 9 * 60))

NMatch(p) == IF p = "dcf77" THEN 4 ELSE IF p = "msf" THEN 3 ELSE 2
LenA(p) == IF p = "jjy" THEN 60 ELSE 45
LenB(p) == IF p = "dcf77" THEN 6 ELSE 8

\* the loop's variables at entry; the names the loop assigns first are
\* still unbound
EntryOf(p, sd) ==
        [tcA |-> Blanks(LenA(p)), tcB |-> Blanks(LenB(p)), elapsed |-> 0,
         yrs |-> sd.yrs, mons |-> sd.mons, dys |-> sd.dys, dsts |-> sd.dsts,
         doys |-> sd.doys, mods |-> sd.mods, match |-> AllFalse(NMatch(p)),
         year |-> sd.year, month |-> sd.month, day |-> sd.day, doy |-> sd.doy]

Entry(p, now) == EntryOf(p, Seed(p, now))

\* the enable setting each file ships with
EnableSetting(p) == IF p = "msf" THEN "low" ELSE "off"

\* Init: the decode loop is entered by a run that was given a fixed phase
\* offset (500 ms), so that no phase was measured
InitIn(scs) ==
    /\ proto \in DOMAIN scs
    /\ ticks = 0
    /\ pc = "loop"
    /\ enable = EnableSetting(proto)
    /\ delta_t = 500
    /\ handler = "None"
    /\ delta = Unbound
    /\ deltas = <<>> /\ shifts = <<>> /\ shift = Unbound
    /\ count = Unbound /\ period = Unbound
    /\ abort = FALSE
    /\ \E sc \in scs[proto] :
       \E mode \in sc.modes :
          /\ tx = OnAirFirst(proto, sc, mode)
          /\ \E e \in {Entry(proto, sc.now)} :
                 /\ tcA = e.tcA /\ tcB = e.tcB /\ elapsed = e.elapsed
                 /\ yrs = e.yrs /\ mons = e.mons /\ dys = e.dys
                 /\ dsts = e.dsts /\ doys = e.doys /\ mods = e.mods
                 /\ match = e.match
                 /\ year = e.year /\ month = e.month /\ day = e.day
                 /\ doy = e.doy
    /\ yr = Unbound /\ mon = Unbound /\ dy = Unbound /\ ds = Unbound
    /\ hr = Unbound /\ mn = Unbound /\ mod = Unbound /\ dst = Unbound
    /\ rc_sync = FALSE
    /\ rtc = <<>>
    /\ secs = 0
    /\ samples = NoSamples /\ sample = "None"
    /\ result = <<>>

\* the scenarios of the decode loop
Init == InitIn([p \in {"dcf77", "msf", "jjy"} |-> Scenarios(p)])

----------------------------------------------------------------------------
(* One iteration of the decode loop that samples a second                  *)
(* (dcf77 lines 190-301, msf 184-288, jjy 185-290)                         *)

\* a variant that takes a tail differing from the pattern in one bit
IsMarkerNearMiss(p, a, b) ==
    IF p = "dcf77" THEN EndsWith(b, <<"1", "1", "1", "1">>)
    ELSE IF p = "jjy" THEN EndsWith(b, <<"0", "1", "1", "1">>)
    ELSE EndsWith(a, <<"1", "1", "1", "1", "1", "1", "1", "0">>)

\* the end-of-minute pattern, in the marker buffer
IsMarker(p, a, b) ==
    IF p = "dcf77" THEN EndsWith(b, <<"1", "1", "1", "0">>)
    ELSE IF p = "jjy" THEN EndsWith(b, <<"0", "0", "1", "1">>)
    ELSE EndsWith(a, <<"0", "1", "1", "1", "1", "1", "1", "0">>)

Cycle(p, S, a, b) ==
    IF p = "dcf77" THEN DcfCycle(S, a)
    ELSE IF p = "msf" THEN MsfCycle(S, a, b)
    ELSE JjyCycle(S, a)

\* a variant that compares the seconds sampled with timeout in minutes
TimedOutEarly(e) == e > timeout

\* a variant that gives up in the second that reaches the timeout
TimedOutAtLimit(e) == e >= timeout * 60

\* if elapsed > timeout*60: print("Signal unreliable, aborting"); break
TimedOut(e) == e > timeout * 60

\* milliseconds from the start of the sampled second to the first read of
\* ticks_ms() in the set-clock loop (sampling, decoding and printing come
\* first): well before the next second, one millisecond before it, or
\* exactly on it
SpinEntry == {900, 999, 1000}

\* the loop's variables as a record; elapsed already counts this second
Cur ==
    [yrs |-> yrs, mons |-> mons, dys |-> dys, dsts |-> dsts, doys |-> doys,
     mods |-> mods, match |-> match, yr |-> yr, mon |-> mon, dy |-> dy,
     ds |-> ds, hr |-> hr, mn |-> mn, mod |-> mod, year |-> year,
     month |-> month, day |-> day, dst |-> dst, doy |-> doy,
     elapsed |-> elapsed + 1, rc_sync |-> rc_sync, rtc |-> rtc, out |-> "next"]

\* the transmitter moves on by one second; a new minute is received in
\* any of the scenario's modes
TxStep ==
    IF tx.pos = 59
    THEN \E mode \in tx.sc.modes :
            tx' = [tx EXCEPT !.pos = 0, !.k = tx.k + 1,
                             !.f = OnAir(proto, tx.sc, tx.k + 1, mode)]
    ELSE tx' = [tx EXCEPT !.pos = tx.pos + 1]

\* if ticks_ms()%1000 == delta_t: sample the second, shift it in, decode at
\* the marker, test the timeout.  The millisecond counter never reads
\* delta_t when delta_t is outside 0..999: the loop then spins for ever.
\* locked is where the step ends once the clock is to be set: "done" takes
\* the set-clock loop and the write into the step, "set_rtc" stops before
\* the loop, after the prints and the conversion that follow the sampling.
SecondUpTo(at, max, locked) ==
    /\ pc = at
    /\ delta_t \in 0..999
    /\ secs < max
    /\ LET a == Tail(tcA) \o <<Str(Frame(proto, tx.f).A[tx.pos + 1])>>
           b == Tail(tcB) \o <<Str(Frame(proto, tx.f).B[tx.pos + 1])>>
       IN  \E S \in {IF IsMarker(proto, a, b) THEN Cycle(proto, Cur, a, b) ELSE Cur} :
           /\ tcA' = IF proto = "dcf77" /\ S.out # "next" THEN Reversed(a) ELSE a
           /\ tcB' = b
           /\ yrs' = S.yrs /\ mons' = S.mons /\ dys' = S.dys
           /\ dsts' = S.dsts /\ doys' = S.doys /\ mods' = S.mods
           /\ match' = S.match
           /\ yr' = S.yr /\ mon' = S.mon /\ dy' = S.dy /\ ds' = S.ds
           /\ hr' = S.hr /\ mn' = S.mn /\ mod' = S.mod
           /\ year' = S.year /\ month' = S.month /\ day' = S.day
           /\ dst' = S.dst /\ doy' = S.doy
           /\ elapsed' = S.elapsed
           /\ rc_sync' = (IF locked = "done" THEN S.rc_sync ELSE rc_sync)
           /\ rtc' = (IF locked = "done" THEN S.rtc ELSE rtc)
           /\ IF S.out = "set" /\ locked # "done"
              THEN \E late \in SpinEntry : ticks' = (delta_t + late) % 1000
              ELSE ticks' = ticks
           /\ pc' = IF S.out = "set" THEN locked
                    ELSE IF S.out # "next" THEN S.out
                    ELSE IF TimedOut(S.elapsed) THEN "timeout"
                    ELSE "loop"
    /\ secs' = secs + 1
    /\ samples' = [index |-> 0, fresh |-> 1..N]
    /\ TxStep
    /\ UNCHANGED <<proto, acqVars, sample, result>>

\* a second of the explored part of the loop, taken at position at
SecondAt(at) == SecondUpTo(at, MaxSecs, "done")

\* the second as one step: the timer's ticks are not interleaved
Second == SecondAt("loop")

Next == Second

Spec == Init /\ [][Next]_vars

----------------------------------------------------------------------------
(* The decode loop with the set-clock loop on its own: "while True: if     *)
(* ticks_ms()%1000 == delta_t: rtc.datetime(...); break", then rc_sync =   *)
(* True and the break out of the decode loop (dcf77 lines 282-292, msf     *)
(* 270-280, jjy 273-283)                                                   *)

SecondSet == SecondUpTo("loop", MaxSecs, "set_rtc")

\* an iteration that reads another value than delta_t; the next read comes
\* within the same millisecond or in the next one
Spin ==
    /\ pc = "set_rtc"
    /\ ticks # delta_t
    /\ ticks' = (ticks + 1) % 1000
    /\ UNCHANGED <<proto, pc, acqVars, loopVars, result, tx>>

\* a variant that writes the clock on the first read, whatever it is
SetRtcAtOnce ==
    /\ pc = "set_rtc"
    /\ rtc' = Lock(proto, Cur).rtc
    /\ rc_sync' = TRUE
    /\ pc' = "done"
    /\ UNCHANGED <<proto, ticks, acqVars, tcA, tcB, elapsed, yrs, mons, dys,
                   dsts, doys, mods, match, yr, mon, dy, ds, hr, mn, mod,
                   year, month, day, dst, doy, secs, samples, sample, result,
                   tx>>

\* the iteration that reads delta_t: the clock is written, the flag set
SetRtc ==
    /\ pc = "set_rtc"
    /\ ticks = delta_t
    /\ rtc' = Lock(proto, Cur).rtc
    /\ rc_sync' = TRUE
    /\ pc' = "done"
    /\ UNCHANGED <<proto, ticks, acqVars, tcA, tcB, elapsed, yrs, mons, dys,
                   dsts, doys, mods, match, yr, mon, dy, ds, hr, mn, mod,
                   year, month, day, dst, doy, secs, samples, sample, result,
                   tx>>

NextSet == SecondSet \/ Spin \/ SetRtc

SpecSet == Init /\ [][NextSet]_vars

----------------------------------------------------------------------------
(* The whole run: start, phase acquisition, decode loop, return            *)
(* (dcf77 lines 89-159 and 303-305)                                        *)

\* line 98, "if delta_t:": None and 0 are both false
Truthy(v) == v # None /\ v # 0

\* lines 91-103: the start; with a fixed delta_t the measurement is skipped
Start ==
    /\ pc = "start"
    /\ rc_sync' = FALSE
    /\ abort' = FALSE
    /\ IF Truthy(delta_t)
       THEN /\ pc' = "enter"
            /\ UNCHANGED <<handler, delta>>
       ELSE /\ handler' = "isr_trig"
            /\ delta' = NoEdge
            /\ pc' = "wait"
    /\ UNCHANGED <<proto, ticks, enable, delta_t, deltas, shifts, shift, count, period,
                   tcA, tcB, elapsed, yrs, mons, dys, dsts, doys, mods, match,
                   yr, mon, dy, ds, hr, mn, mod, year, month, day, dst, doy,
                   rtc, secs, samples, sample, result, tx>>

\* lines 55-56, the edge interrupt: delta[0] = ticks_ms()
isr_trig ==
    /\ handler = "isr_trig"
    /\ Len(deltas) < MaxEdges
    /\ \E t \in EdgeTicks : delta' = t
    /\ UNCHANGED <<proto, ticks, pc, enable, delta_t, handler, deltas, shifts, shift,
                   count, period, abort, loopVars, result, tx>>

\* lines 105-129: the first pulse ends the wait; the lists are emptied and
\* get_deltas(16) starts with count = 32
WaitPulse ==
    /\ pc = "wait"
    /\ delta # NoEdge
    /\ delta' = NoEdge
    /\ deltas' = <<>> /\ shifts' = <<>>
    /\ shift' = 0
    /\ period' = 16
    /\ count' = 16 * 2
    /\ pc' = "window1"
    /\ UNCHANGED <<proto, ticks, enable, delta_t, handler, abort, loopVars, result, tx>>

\* lines 80-86, an iteration of get_deltas that finds an edge
Poll ==
    /\ pc \in {"window1", "window2"}
    /\ count > 0
    /\ delta # NoEdge
    /\ count' = count - 1
    /\ deltas' = Append(deltas, delta % 1000)
    /\ shifts' = Append(shifts, (delta + 500) % 1000)
    /\ delta' = NoEdge
    /\ UNCHANGED <<proto, ticks, pc, enable, delta_t, handler, shift, period, abort,
                   loopVars, result, tx>>

\* a variant that aborts only above two edges per second
NoiseAbove(n, per) == n > per * 2

\* line 130: if len(deltas) == period * 2
NoiseTooHigh(n, per) == n = per * 2

\* a variant that extends the window from 20 edges on
PoorSignalFrom(n, per) == 4 * n >= 5 * per

\* line 133: elif len(deltas) > period * 1.25
PoorSignal(n, per) == 4 * n > 5 * per

\* get_deltas(16) returns (count = 0, or its time is up); lines 130-137
Window1End ==
    /\ pc = "window1"
    /\ IF NoiseTooHigh(Len(deltas), period)
       THEN /\ abort' = TRUE
            /\ handler' = "None"
            /\ pc' = "exit"
            /\ UNCHANGED <<period, count>>
       ELSE IF PoorSignal(Len(deltas), period)
       THEN /\ period' = 64
            /\ count' = (64 - 16) * 2
            /\ pc' = "window2"
            /\ UNCHANGED <<abort, handler>>
       ELSE /\ handler' = "None"
            /\ pc' = "estimate"
            /\ UNCHANGED <<abort, period, count>>
    /\ UNCHANGED <<proto, ticks, enable, delta_t, delta, deltas, shifts, shift,
                   loopVars, result, tx>>

\* get_deltas(48) returns; line 137
Window2End ==
    /\ pc = "window2"
    /\ handler' = "None"
    /\ pc' = "estimate"
    /\ UNCHANGED <<proto, ticks, enable, delta_t, delta, deltas, shifts, shift, count,
                   period, abort, loopVars, result, tx>>

\* lines 138-155: clean both lists, choose one, average
Estimate ==
    /\ pc = "estimate"
    /\ IF StDevFails(deltas)
       THEN /\ pc' = "crash"
            /\ UNCHANGED <<deltas, shifts, shift, delta_t>>
       ELSE /\ deltas' = Sorted(Chosen(deltas, shifts).deltas)
            /\ shifts' = Cleaned(shifts)
            /\ shift' = Chosen(deltas, shifts).shift
            /\ delta_t' = PhaseOf(Chosen(deltas, shifts).deltas,
                                  Chosen(deltas, shifts).shift)
            /\ pc' = "enter"
    /\ UNCHANGED <<proto, ticks, enable, handler, delta, count, period, abort,
                   loopVars, result, tx>>

\* lines 159-187: the decode loop is entered; from here on the receiver's
\* output is sampled
EnterLoop ==
    /\ pc = "enter"
    /\ \E sc \in RunScenarios(proto) : \E mode \in sc.modes :
          /\ tx' = OnAirFirst(proto, sc, mode)
          /\ \E e \in {Entry(proto, sc.now)} :
                 /\ tcA' = e.tcA /\ tcB' = e.tcB /\ elapsed' = e.elapsed
                 /\ yrs' = e.yrs /\ mons' = e.mons /\ dys' = e.dys
                 /\ dsts' = e.dsts /\ doys' = e.doys /\ mods' = e.mods
                 /\ match' = e.match
                 /\ year' = e.year /\ month' = e.month /\ day' = e.day
                 /\ doy' = e.doy
    /\ secs' = 0
    /\ samples' = NoSamples
    /\ pc' = "loop"
    /\ UNCHANGED <<proto, ticks, acqVars, yr, mon, dy, ds, hr, mn, mod, dst, rc_sync,
                   rtc, sample, result>>

\* line 305, return(rc_sync, gmtime()): the date-time is the one written,
\* or the old clock when nothing was written
Returned == <<rc_sync, rtc>>

\* lines 303-305: after the loop, or after the noise abort.  Only RCget of
\* RCget_dcf77.py is a function; its return sits inside "if enable != 'off'"
Finish ==
    /\ pc \in {"exit", "done", "timeout", "ambig"}
    /\ result' = IF proto = "dcf77" /\ enable # "off" THEN Returned ELSE <<>>
    /\ pc' = "returned"
    /\ UNCHANGED <<proto, ticks, acqVars, loopVars, tx>>

\* a run of RCget (RCget_dcf77.py, the one file that defines the function)
\* from its first line, under each setting of enable, with delta_t to be
\* measured or fixed
InitRunWith(dts) ==
    /\ proto = "dcf77"
    /\ ticks = 0
    /\ pc = "start"
    /\ enable \in {"off", "high", "low"}
    /\ delta_t \in dts
    /\ handler = "None"
    /\ delta = Unbound
    /\ deltas = <<>> /\ shifts = <<>> /\ shift = Unbound
    /\ count = Unbound /\ period = Unbound
    /\ abort = FALSE
    /\ tcA = <<>> /\ tcB = <<>> /\ elapsed = Unbound
    /\ yrs = <<>> /\ mons = <<>> /\ dys = <<>> /\ dsts = <<>> /\ doys = <<>>
    /\ mods = <<>> /\ match = <<>>
    /\ yr = Unbound /\ mon = Unbound /\ dy = Unbound /\ ds = Unbound
    /\ hr = Unbound /\ mn = Unbound /\ mod = Unbound
    /\ year = Unbound /\ month = Unbound /\ day = Unbound /\ dst = Unbound
    /\ doy = Unbound
    /\ rc_sync = FALSE
    /\ rtc = <<>>
    /\ result = <<>>
    /\ secs = 0
    /\ samples = NoSamples /\ sample = "None"
    /\ tx = <<>>

InitRun == InitRunWith({None, 500})

NextRun ==
    \/ Start
    \/ isr_trig
    \/ WaitPulse
    \/ Poll
    \/ Window1End
    \/ Window2End
    \/ Estimate
    \/ EnterLoop
    \/ Second
    \/ Finish

SpecRun == InitRun /\ [][NextRun]_vars

\* line 22 with a fixed delta_t set for testing: the ends of the range of
\* ticks_ms() % 1000 and values inside it
InitOverride == InitRunWith({0, 1, 500, 999})

SpecOverride == InitOverride /\ [][NextRun]_vars

----------------------------------------------------------------------------
(* The phase estimator on its own: every list of 2..MaxPhaseEdges offsets  *)
(* taken from PhaseVals (in ascending order: the estimator does not depend *)
(* on the order)                                                           *)

RECURSIVE Repeat(_, _)
Repeat(x, n) == IF n = 0 THEN <<>> ELSE <<x>> \o Repeat(x, n - 1)

RECURSIVE Listed(_, _)
Listed(c, V) ==
    IF V = {} THEN <<>>
    ELSE LET x == CHOOSE v \in V : \A w \in V : v <= w
         IN  Repeat(x, c[x]) \o Listed(c, V \ {x})

EdgeLists ==
    {Listed(c, PhaseVals) :
        c \in {d \in [PhaseVals -> 0..MaxPhaseEdges] :
                  Len(Listed(d, PhaseVals)) \in 2..MaxPhaseEdges}}

\* the state in which the lists collected by get_deltas are handed on
\* (dcf77 line 138)
EdgesCollected ==
    /\ proto = "dcf77"
    /\ ticks = 0
    /\ enable = "off"
    /\ delta_t = None
    /\ handler = "None"
    /\ delta = NoEdge
    /\ deltas \in EdgeLists
    /\ shifts = [i \in 1..Len(deltas) |-> (deltas[i] + 500) % 1000]
    /\ shift = 0
    /\ count = 0 /\ period = 16
    /\ abort = FALSE
    /\ tcA = <<>> /\ tcB = <<>> /\ elapsed = Unbound
    /\ yrs = <<>> /\ mons = <<>> /\ dys = <<>> /\ dsts = <<>> /\ doys = <<>>
    /\ mods = <<>> /\ match = <<>>
    /\ yr = Unbound /\ mon = Unbound /\ dy = Unbound /\ ds = Unbound
    /\ hr = Unbound /\ mn = Unbound /\ mod = Unbound
    /\ year = Unbound /\ month = Unbound /\ day = Unbound /\ dst = Unbound
    /\ doy = Unbound
    /\ rc_sync = FALSE
    /\ rtc = <<>>
    /\ result = <<>>
    /\ secs = 0
    /\ samples = NoSamples /\ sample = "None"
    /\ tx = <<>>

InitPhase == pc = "estimate" /\ EdgesCollected

NextPhase == Estimate

SpecPhase == InitPhase /\ [][NextPhase]_vars

----------------------------------------------------------------------------
(* The two outlier loops on their own, one iteration at a time             *)
(* (dcf77 lines 140-141)                                                   *)

\* while st_dev(data) > 5 and len(data) > 8
Iterates(data) == StDevOver5(data) /\ Len(data) > 8

\* line 140, one iteration: del_outlr(deltas)
CleanDeltas ==
    /\ pc = "clean_deltas"
    /\ ~StDevFails(deltas)
    /\ Iterates(deltas)
    /\ deltas' = del_outlr(deltas)
    /\ UNCHANGED <<proto, ticks, pc, enable, delta_t, handler, delta, shifts, shift,
                   count, period, abort, loopVars, result, tx>>

\* line 140, the loop ends (a list of fewer than 2 values ends the run:
\* ZeroDivisionError)
DeltasCleaned ==
    /\ pc = "clean_deltas"
    /\ pc' = IF StDevFails(deltas) THEN "crash"
             ELSE IF Iterates(deltas) THEN pc ELSE "clean_shifts"
    /\ pc' # pc
    /\ UNCHANGED <<proto, ticks, acqVars, loopVars, result, tx>>

\* line 141, one iteration: del_outlr(shifts)
CleanShifts ==
    /\ pc = "clean_shifts"
    /\ ~StDevFails(shifts)
    /\ Iterates(shifts)
    /\ shifts' = del_outlr(shifts)
    /\ UNCHANGED <<proto, ticks, pc, enable, delta_t, handler, delta, deltas, shift,
                   count, period, abort, loopVars, result, tx>>

\* line 141, the loop ends
ShiftsCleaned ==
    /\ pc = "clean_shifts"
    /\ pc' = IF StDevFails(shifts) THEN "crash"
             ELSE IF Iterates(shifts) THEN pc ELSE "cleaned"
    /\ pc' # pc
    /\ UNCHANGED <<proto, ticks, acqVars, loopVars, result, tx>>

InitClean == pc = "clean_deltas" /\ EdgesCollected

NextClean == CleanDeltas \/ DeltasCleaned \/ CleanShifts \/ ShiftsCleaned

\* the loops are straight-line code: an iteration that can run does run
SpecClean == InitClean /\ [][NextClean]_vars /\ WF_vars(NextClean)

----------------------------------------------------------------------------
(* The decode loop of DCF77 with the sampling timer's ticks interleaved    *)
(* (dcf77 lines 59-61 and 190-198): a board that was synchronised before   *)
(* enters the loop in second 1 and receives every minute well              *)

\* lines 190-193: the millisecond counter reads delta_t;
\* sample = Timer(period=5, callback=isr_sample)
StartTimer ==
    /\ pc = "loop"
    /\ delta_t \in 0..999
    /\ secs < MaxSecs
    /\ sample' = "Timer"
    /\ samples' = [samples EXCEPT !.fresh = {}]
    /\ pc' = "sampling"
    /\ UNCHANGED <<proto, ticks, acqVars, tcA, tcB, elapsed, yrs, mons, dys, dsts,
                   doys, mods, match, yr, mon, dy, ds, hr, mn, mod, year,
                   month, day, dst, doy, rc_sync, rtc, secs, result, tx>>

\* lines 59-61, a tick: samples[0] += 1; samples[samples[0]] = value.
\* The handler runs to its end before the loop goes on.  The store raises
\* IndexError when samples[0] has passed the last slot.
isr_sample ==
    /\ sample = "Timer"
    /\ samples.index < MaxTicks
    /\ samples' = [index |-> samples.index + 1,
                   fresh |-> IF samples.index + 1 < SamplesLen
                             THEN samples.fresh \cup {samples.index + 1}
                             ELSE samples.fresh]
    /\ UNCHANGED <<proto, ticks, pc, acqVars, tcA, tcB, elapsed, yrs, mons, dys, dsts,
                   doys, mods, match, yr, mon, dy, ds, hr, mn, mod, year,
                   month, day, dst, doy, rc_sync, rtc, secs, sample, result, tx>>

\* lines 194-195: while samples[0] < len(samples)-1: pass  (the loop ends)
LoopExit ==
    /\ pc = "sampling"
    /\ ~(samples.index < N)
    /\ pc' = "full"
    /\ UNCHANGED <<proto, ticks, acqVars, loopVars, result, tx>>

\* a variant that resets the index and leaves the timer running
DeinitKeepsTimer ==
    /\ pc = "full"
    /\ samples' = [samples EXCEPT !.index = 0]
    /\ pc' = "sampled"
    /\ UNCHANGED <<proto, ticks, acqVars, tcA, tcB, elapsed, yrs, mons, dys, dsts,
                   doys, mods, match, yr, mon, dy, ds, hr, mn, mod, year,
                   month, day, dst, doy, rc_sync, rtc, secs, sample, result, tx>>

\* lines 197-198: Timer.deinit(sample); samples[0] = 0
Deinit ==
    /\ pc = "full"
    /\ sample' = "None"
    /\ samples' = [samples EXCEPT !.index = 0]
    /\ pc' = "sampled"
    /\ UNCHANGED <<proto, ticks, acqVars, tcA, tcB, elapsed, yrs, mons, dys, dsts,
                   doys, mods, match, yr, mon, dy, ds, hr, mn, mod, year,
                   month, day, dst, doy, rc_sync, rtc, secs, result, tx>>

\* lines 203-301: the rest of the second
ShiftIn == SecondAt("sampled")

InitSample ==
    /\ Init
    /\ proto = "dcf77"
    /\ tx.sc.start = 1 /\ ~tx.sc.cold
    /\ tx.sc.base = MkTime(2024, 3, 5, 10, 0)

NextSample == StartTimer \/ isr_sample \/ LoopExit \/ Deinit \/ ShiftIn

SpecSample == InitSample /\ [][NextSample]_vars

----------------------------------------------------------------------------
(* A whole run of RCget with the sampling timer's ticks interleaved: the   *)
(* edge handler of phase acquisition and the timer of the decode loop in   *)
(* one behaviour                                                           *)

InitRunSampled == InitRun /\ enable = "high"

NextRunSampled ==
    \/ Start
    \/ isr_trig
    \/ WaitPulse
    \/ Poll
    \/ Window1End
    \/ Window2End
    \/ Estimate
    \/ EnterLoop
    \/ StartTimer
    \/ isr_sample
    \/ LoopExit
    \/ Deinit
    \/ ShiftIn
    \/ Finish

SpecRunSampled == InitRunSampled /\ [][NextRunSampled]_vars

----------------------------------------------------------------------------
(* get_deltas with the edge interrupt between its statements (dcf77 lines  *)
(* 55-56 and 75-87): the polling loop reads delta[0] once in its test and  *)
(* once for each list, and the handler can run before each read            *)

\* edges collected while the interrupt is interleaved, at most
MaxPollEdges == 5

\* ticks_ms() at the edges: a time code pulse and noise
PollTicks == {20100, 20350}

InitPoll == InitRun /\ enable = "off" /\ delta_t = None

\* lines 55-56: delta[0] = ticks_ms()
isr_trig_poll ==
    /\ handler = "isr_trig"
    /\ Len(deltas) < MaxPollEdges
    /\ \E t \in PollTicks : delta' = t
    /\ UNCHANGED <<proto, ticks, pc, enable, delta_t, handler, deltas, shifts, shift,
                   count, period, abort, loopVars, result, tx>>

\* lines 80-81: if delta[0] != -1: count -= 1
PollFound ==
    /\ pc = "window1"
    /\ count > 0
    /\ delta # NoEdge
    /\ count' = count - 1
    /\ pc' = "poll_deltas"
    /\ UNCHANGED <<proto, ticks, enable, delta_t, handler, delta, deltas, shifts,
                   shift, period, abort, loopVars, result, tx>>

\* line 82: deltas.append(delta[0]%1000)
PollDeltas ==
    /\ pc = "poll_deltas"
    /\ deltas' = Append(deltas, delta % 1000)
    /\ pc' = "poll_shifts"
    /\ UNCHANGED <<proto, ticks, enable, delta_t, handler, delta, shifts, shift,
                   count, period, abort, loopVars, result, tx>>

\* line 83: shifts.append((delta[0]+500)%1000)
PollShifts ==
    /\ pc = "poll_shifts"
    /\ shifts' = Append(shifts, (delta + 500) % 1000)
    /\ pc' = "poll_reset"
    /\ UNCHANGED <<proto, ticks, enable, delta_t, handler, delta, deltas, shift,
                   count, period, abort, loopVars, result, tx>>

\* lines 84-86: delta[0] = -1; sleep_ms(50)
PollReset ==
    /\ pc = "poll_reset"
    /\ delta' = NoEdge
    /\ pc' = "window1"
    /\ UNCHANGED <<proto, ticks, enable, delta_t, handler, deltas, shifts, shift,
                   count, period, abort, loopVars, result, tx>>

NextPoll ==
    \/ Start
    \/ isr_trig_poll
    \/ WaitPulse
    \/ PollFound
    \/ PollDeltas
    \/ PollShifts
    \/ PollReset

SpecPoll == InitPoll /\ [][NextPoll]_vars

----------------------------------------------------------------------------
(* The decode loop over enough minutes for a history to fill up: a board   *)
(* whose RTC (if set) is a day behind the transmitter receives every       *)
(* minute's time well, and its date well, with failing parity, or with     *)
(* another day                                                              *)

\* seconds of the decode loop that are explored when histories fill up
MaxLongSecs == 301

LongModes == {"ok", "badDate", "dayAlt"}

LongScenarios(p) ==
    {[base |-> MkTime(2024, 3, 5, 10, 0), ds |-> 0, cold |-> c,
      now |-> IF c THEN ColdRtc ELSE MkTime(2024, 3, 4, 8, 59),
      start |-> s, modes |-> LongModes] :
        c \in BOOLEAN, s \in StartPos}

InitLong == InitIn([p \in {"dcf77", "msf", "jjy"} |-> LongScenarios(p)])

LongSecond == SecondUpTo("loop", MaxLongSecs, "done")

NextLong == LongSecond

SpecLong == InitLong /\ [][NextLong]_vars

----------------------------------------------------------------------------
(* The decode loop entered at any second of the minute: the first marker   *)
(* finds the buffers filled to every level                                 *)

\* seconds of the decode loop that are explored from any second of entry
MaxFillSecs == 125

FillModes == {"ok", "dayAlt", "noise"}

FillScenarios(p) ==
    {[base |-> MkTime(2024, 3, 5, 10, 0), ds |-> 0, cold |-> c,
      now |-> IF c THEN ColdRtc ELSE MkTime(2024, 3, 5, 8, 59),
      start |-> s, modes |-> FillModes] :
        c \in BOOLEAN, s \in 0..59}

InitFill == InitIn([p \in {"dcf77", "msf", "jjy"} |-> FillScenarios(p)])

FillSecond == SecondUpTo("loop", MaxFillSecs, "done")

NextFill == FillSecond

SpecFill == InitFill /\ [][NextFill]_vars

----------------------------------------------------------------------------
(* The MSF civil-to-UTC conversion on its own: the test of line 258 and    *)
(* what follows it, entered with every field matched and the minute-of-day *)
(* confirmed, for local date-times around the months' ends                 *)

\* the years the range check 23 < yr < 100 lets through
Years == 2024..2099

ConvMonths == {1, 3, 7, 10}
ConvDays == 24..31
ConvHours == {0, 1, 2, 3, 12}
ConvMinutes == {0, 59}

\* msf lines 258-280
SetClockMsf ==
    /\ pc = "loop"
    /\ proto = "msf"
    /\ \E S \in {TrySet("msf", Cur)} :
          /\ rtc' = S.rtc
          /\ rc_sync' = S.rc_sync
          /\ pc' = IF S.out = "set" THEN "done" ELSE S.out
    /\ UNCHANGED <<proto, ticks, acqVars, tcA, tcB, elapsed, yrs, mons, dys, dsts,
                   doys, mods, match, yr, mon, dy, ds, hr, mn, mod, year,
                   month, day, dst, doy, secs, samples, sample, result, tx>>

InitConv ==
    /\ proto = "msf"
    /\ ticks = 0
    /\ pc = "loop"
    /\ enable = EnableSetting("msf")
    /\ delta_t = 500
    /\ handler = "None"
    /\ delta = Unbound
    /\ deltas = <<>> /\ shifts = <<>> /\ shift = Unbound
    /\ count = Unbound /\ period = Unbound
    /\ abort = FALSE
    /\ tcA = Blanks(LenA("msf")) /\ tcB = Blanks(LenB("msf"))
    /\ elapsed = 0
    /\ year \in Years /\ month \in ConvMonths /\ day \in ConvDays
    /\ hr \in ConvHours /\ mn \in ConvMinutes
    /\ yr = year - 2000 /\ mon = month /\ dy = day
    /\ mod = hr * 60 + mn
    /\ yrs = <<yr, yr>> /\ mons = <<mon, mon>> /\ dys = <<dy, dy>>
    /\ mods = <<mod, mod>>
    /\ match = AllTrue(3)
    /\ dsts = <<>> /\ doys = <<>>
    /\ ds = Unbound /\ dst = Unbound /\ doy = Unbound
    /\ rc_sync = FALSE
    /\ rtc = <<>>
    /\ secs = 0
    /\ samples = NoSamples /\ sample = "None"
    /\ result = <<>>
    /\ tx = <<>>

NextConv == SetClockMsf

SpecConv == InitConv /\ [][NextConv]_vars

----------------------------------------------------------------------------
(* The JJY day-of-year conversion on its own: the test of line 257 and     *)
(* what follows it, entered with both fields matched and the minute-of-day *)
(* confirmed, for every year and day-of-year the range checks let through  *)

\* the days the range check 0 < dy <= 366 lets through
Doys == 1..366

DoyHours == {0, 12}

\* jjy lines 257-275
SetClockJjy ==
    /\ pc = "loop"
    /\ proto = "jjy"
    /\ \E S \in {TrySet("jjy", Cur)} :
          /\ rtc' = S.rtc
          /\ rc_sync' = S.rc_sync
          /\ month' = S.month
          /\ day' = S.day
          /\ pc' = IF S.out = "set" THEN "done" ELSE S.out
    /\ UNCHANGED <<proto, ticks, acqVars, tcA, tcB, elapsed, yrs, mons, dys, dsts,
                   doys, mods, match, yr, mon, dy, ds, hr, mn, mod, year,
                   dst, doy, secs, samples, sample, result, tx>>

InitDoy ==
    /\ proto = "jjy"
    /\ ticks = 0
    /\ pc = "loop"
    /\ enable = EnableSetting("jjy")
    /\ delta_t = 500
    /\ handler = "None"
    /\ delta = Unbound
    /\ deltas = <<>> /\ shifts = <<>> /\ shift = Unbound
    /\ count = Unbound /\ period = Unbound
    /\ abort = FALSE
    /\ tcA = Blanks(LenA("jjy")) /\ tcB = Blanks(LenB("jjy"))
    /\ elapsed = 0
    /\ year \in Years /\ doy \in Doys
    /\ hr \in DoyHours /\ mn = 30
    /\ yr = year - 2000 /\ dy = doy
    /\ mod = hr * 60 + mn
    /\ yrs = <<yr, yr>> /\ doys = <<dy, dy>>
    /\ mods = <<mod, mod>>
    /\ match = AllTrue(2)
    /\ mons = <<>> /\ dys = <<>> /\ dsts = <<>>
    /\ mon = Unbound /\ ds = Unbound /\ dst = Unbound
    /\ month = Unbound /\ day = Unbound
    /\ rc_sync = FALSE
    /\ rtc = <<>>
    /\ secs = 0
    /\ samples = NoSamples /\ sample = "None"
    /\ result = <<>>
    /\ tx = <<>>

NextDoy == SetClockJjy

SpecDoy == InitDoy /\ [][NextDoy]_vars


(***************************************************************************)
(* Properties                                                              *)
(***************************************************************************)

\* the value each field's match flag stands for, in the order of match
Accepted(p) ==
    IF p = "dcf77" THEN <<year - 2000, month, day, dst>>
    ELSE IF p = "msf" THEN <<year - 2000, month, day>>
    ELSE <<year - 2000, doy>>

\* how often the accepted value of field i occurs in the field's history
Agreeing(i) == PyCount(Hists(proto, Cur)[i], Accepted(proto)[i])

\* every history of a non-time field holds at least n entries
HistsAtLeast(n) ==
    \A i \in 1..Len(Hists(proto, Cur)) : Len(Hists(proto, Cur)[i]) >= n

\* every history of a non-time field holds exactly n entries
HistsExactly(n) ==
    \A i \in 1..Len(Hists(proto, Cur)) : Len(Hists(proto, Cur)[i]) = n

\* C1 (as stated): a field's match flag is set only if the accepted value
\* occurs at least 3 times in the field's history, so a field is never
\* matched after fewer than 3 agreeing observations.
C1_MatchNeedsThree ==
    \A i \in 1..Len(match) : match[i] => Agreeing(i) >= 3

\* C1 (amended): a field's match flag is set only if the accepted value
\* occurs 3 times in the field's history, or every history of the non-time
\* fields holds at least 2 entries that are all equal (the shortcut, which
\* sets every flag at once).
C1_MatchNeedsThreeOrShortcut ==
    \A i \in 1..Len(match) :
        match[i] => (Agreeing(i) >= 3 \/ ShortcutCond(proto, Cur))

\* a field was matched by the primary rule while the shortcut does not apply
C1_MatchedByThree ==
    /\ ~ShortcutCond(proto, Cur)
    /\ \E i \in 1..Len(match) : match[i] /\ Agreeing(i) = 3

\* C2: the clock is set only if, in the same cycle, the decoded hour is
\* below 24, the decoded minute is below 60, the minute-of-day computed from
\* them is the confirmed value and every match flag is true; an hour, minute
\* or minute-of-day that is stale or was never assigned is never used.
C2_SetFromThisCycle ==
    pc = "done" =>
        /\ hr \in 0..23
        /\ mn \in 0..59
        /\ mod = hr * 60 + mn
        /\ All(match)

\* C3: a year outside 24..99, a month outside 1..12, a day outside 1..31 or a
\* day-of-year outside 1..366 is never appended to a history and is never
\* the accepted value the clock is set from.
C3_OutOfRangeRejected ==
    /\ \A i \in 1..Len(yrs) : yrs[i] \in 24..99
    /\ \A i \in 1..Len(mons) : mons[i] \in 1..12
    /\ \A i \in 1..Len(dys) : dys[i] \in 1..31
    /\ \A i \in 1..Len(doys) : doys[i] \in 1..366
    /\ pc = "done" =>
          /\ year \in 2024..2099
          /\ proto = "jjy" => doy \in 1..366
          /\ proto # "jjy" => month \in 1..12 /\ day \in 1..31

\* C4: once the decode loop has sampled more than timeout*60 seconds without
\* locking, the loop is left, whatever frames were decoded meanwhile.
C4_AbortsAfterTimeout ==
    secs > timeout * 60 => pc # "loop"

\* C5: the timeout abort is never taken before more than timeout*60 seconds
\* were sampled, it never follows a lock, and once taken the loop does not
\* run again, so it is reported at most once.
C5_TimeoutNotEarly ==
    /\ [](pc = "timeout" =>
            /\ secs > timeout * 60
            /\ elapsed > timeout * 60
            /\ ~rc_sync
            /\ rtc = <<>>)
    /\ [][pc = "timeout" => (pc' # "loop" /\ secs' = secs /\ elapsed' = elapsed)]_vars

\* the abort is taken at the first second it can be taken
C5_TimedOutAtFirstChance ==
    pc = "timeout" /\ secs = timeout * 60 + 1

\* C6: an MSF decode that falls into the ambiguous hour before the autumn
\* change is discarded and the loop keeps running.
C6_AmbiguousHourKeepsRunning ==
    proto = "msf" => pc # "ambig"

\* C7: the sampling phase computed from any edge collection of at least 2
\* samples, each in 0..999, is an integer in 0..999.
C7_PhaseInRange ==
    pc = "enter" => delta_t \in 0..999

\* C8: when the first 16-second window collects 32 edges, the run aborts:
\* the edge handler is removed, and an aborted run has computed no phase,
\* has not entered the decode loop, has not written the clock and reports
\* no success.
C8_NoiseAbort ==
    /\ [][(pc = "window1" /\ pc' # "window1" /\ Len(deltas) = 32)
            => (abort' /\ handler' = "None" /\ pc' = "exit")]_vars
    /\ [](abort =>
            /\ handler = "None"
            /\ delta_t = None
            /\ pc \in {"exit", "returned"}
            /\ tx = <<>>
            /\ secs = 0
            /\ rtc = <<>>
            /\ ~rc_sync)

\* a run has returned after the noise abort
C8_ReturnedAfterNoise ==
    pc = "returned" /\ abort /\ Len(deltas) = 32 /\ period = 16

\* C9: every run of RCget that terminates returns the pair of the success
\* flag and the time, for every setting of enable.
C9_ResultReturned ==
    pc = "returned" => result = Returned

\* C10 (as stated): after a cold start the clock is not set before every
\* non-time field was observed 3 times.
C10_ColdStartWaitsForThird ==
    (pc = "done" /\ tx.sc.cold) => HistsAtLeast(3)

\* C10 (amended): after a cold start the clock is not set before every
\* non-time field was observed twice and two minute-of-day values agree.
C10_ColdStartNeedsTwo ==
    (pc = "done" /\ tx.sc.cold) => (HistsAtLeast(2) /\ Len(mods) >= 2)

\* after a cold start on a frame boundary the clock is set at the third
\* frame from two observations of every non-time field
C10_SetOnSecondGoodFrame ==
    /\ pc = "done"
    /\ tx.sc.cold
    /\ tx.sc.start = 1
    /\ tx.k = 3
    /\ HistsExactly(2)

\* every history of a non-time field holds at most n entries
HistsAtMost(n) ==
    \A i \in 1..Len(Hists(proto, Cur)) : Len(Hists(proto, Cur)[i]) <= n

\* the cycle that just ended decoded a valid minute-of-day and appended it:
\* only then is elapsed 0 after a sampled second
TimeAppended == secs > 0 /\ elapsed = 0

\* C11: at the end of a decode cycle in which a valid minute-of-day below 5
\* was decoded and appended, every non-time history holds at most one entry
\* and every match flag is false, and the clock was not set in that cycle.
C11_RolloverClearsMatches ==
    (TimeAppended /\ mod \in 0..4) =>
        /\ HistsAtMost(1)
        /\ \A i \in 1..Len(match) : ~match[i]
        /\ pc = "loop"
        /\ ~rc_sync
        /\ rtc = <<>>

\* MSF, synchronised before: the year decoded in the rollover cycle is the
\* only entry left of a history that held the seed as well
C11_MsfTruncatedAtMidnight ==
    /\ proto = "msf"
    /\ ~tx.sc.cold
    /\ TimeAppended
    /\ mod \in 0..4
    /\ yrs = <<yr>>
    /\ Len(mods) >= 2

\* the last n characters of a buffer
TailOf(s, n) == SubSeq(s, Len(s) - n + 1, Len(s))

\* the marker buffer's tail is the protocol's end-of-minute pattern
MarkerTail ==
    IF proto = "dcf77" THEN TailOf(tcB, 4) = <<"1", "1", "1", "0">>
    ELSE IF proto = "jjy" THEN TailOf(tcB, 4) = <<"0", "0", "1", "1">>
    ELSE TailOf(tcA, 8) = <<"0", "1", "1", "1", "1", "1", "1", "0">>

\* tcA as it was shifted in: DCF77 leaves the loop with tcA reversed
ShiftedA ==
    IF proto = "dcf77" /\ pc \notin {"loop", "timeout"} THEN Reversed(tcA)
    ELSE tcA

\* everything a decode attempt can change
DecodeState ==
    <<yrs, mons, dys, dsts, doys, mods, match, yr, mon, dy, ds, hr, mn, mod,
      year, month, day, dst, doy, elapsed, rc_sync, rtc>>

\* the same of a record of the loop's variables
DecodeStateOf(S) ==
    <<S.yrs, S.mons, S.dys, S.dsts, S.doys, S.mods, S.match, S.yr, S.mon,
      S.dy, S.ds, S.hr, S.mn, S.mod, S.year, S.month, S.day, S.dst, S.doy,
      S.elapsed, S.rc_sync, S.rtc>>

\* C12: a second makes a decode attempt if and only if, after the second's
\* shift, the marker buffer's tail is the end-of-minute pattern (DCF77 tcB
\* 1110, JJY tcB 0011, MSF tcA 01111110): with the pattern the second ends
\* in the state the decode produces, without it (a tail one bit off
\* included) nothing but the seconds counter changes; no occurrence of the
\* pattern is seen by two seconds.
C12_DecodeIffMarker ==
    /\ [][\E S \in {IF MarkerTail' THEN Cycle(proto, Cur, ShiftedA', tcB')
                                     ELSE Cur} :
              DecodeState' = DecodeStateOf(S)]_vars
    /\ [][~(MarkerTail /\ MarkerTail')]_vars

\* a second ended with the pattern at the tail and a minute-of-day appended
C12_DecodedAtMarker ==
    MarkerTail /\ TimeAppended /\ mod # Unbound /\ PyLast(mods, 1) = <<mod>>

\* new is old without one element, which is old's maximum or minimum
OneOutlierRemoved(old, new) ==
    \E i \in 1..Len(old) :
        /\ old[i] \in {Max(old), Min(old)}
        /\ new = SubSeq(old, 1, i - 1) \o SubSeq(old, i + 1, Len(old))

\* the condition on which an outlier loop may end
LoopEnded(data) == ~StDevOver5(data) \/ Len(data) <= 8

\* C13: the loop "while st_dev(data) > 5 and len(data) > 8: del_outlr(data)"
\* removes exactly one element per iteration, the maximum or the minimum,
\* ends with a standard deviation of at most 5 or a size of at most 8, and
\* terminates.
C13_OutlierLoop ==
    /\ [][deltas' # deltas => OneOutlierRemoved(deltas, deltas')]_vars
    /\ [][shifts' # shifts => OneOutlierRemoved(shifts, shifts')]_vars
    /\ [](pc = "clean_shifts" => LoopEnded(deltas))
    /\ [](pc = "cleaned" => (LoopEnded(deltas) /\ LoopEnded(shifts)))
    /\ <>(pc = "cleaned")

\* a list of 10 values was cut to 9 and left the loop on its deviation
C13_EndedOnDeviation ==
    /\ pc = "cleaned"
    /\ Len(shifts) = 10
    /\ Len(deltas) = 9
    /\ ~StDevOver5(deltas)

\* the day of the week of a date, from the day count: 0 is Sunday
\* (2000-01-01 was a Saturday)
Weekday(y, m, d) ==
    (DaysBeforeYear(y) + DaysBeforeMonth(y, m) + (d - 1) + 6) % 7

\* the last Sunday of a month of 31 days, found on the calendar
LastSunday(y, m) == CHOOSE d \in 25..31 : Weekday(y, m, d) = 0

\* the decoded local date-time and the two changes of the year, as instants
LocalTime == MkTime(year, month, day, hr, mn)
ForwardAt == MkTime(year, 3, LastSunday(year, 3), 1, 0)
BackAt == MkTime(year, 10, LastSunday(year, 10), 2, 0)

\* the two hours before the autumn change, in which MSF declines to set
Declined == BackAt - 120 < LocalTime /\ LocalTime < BackAt

\* C14: for every decoded year 2024..2099 the computed changes lie on the
\* last Sunday of March and of October, and outside the declined autumn
\* window the UTC written is local time minus 1 hour exactly when local time
\* is at or after the spring change (01:00) and before the autumn change
\* (02:00), and local time otherwise.
C14_MsfUtc ==
    (proto = "msf" /\ year \in Years /\ pc # "loop") =>
        /\ LastSunMar(year) = LastSunday(year, 3)
        /\ LastSunOct(year) = LastSunday(year, 10)
        /\ ~Declined =>
              /\ pc = "done"
              /\ rtc = RtcTuple(GmTime(IF ForwardAt <= LocalTime /\ LocalTime < BackAt
                                       THEN LocalTime - 60 ELSE LocalTime))

\* 2099, the last Sunday of October at 00:00 local: the UTC written is 23:00
\* of the day before
C14_SummerBeforeWindow ==
    /\ pc = "done"
    /\ year = 2099 /\ month = 10 /\ day = LastSunday(2099, 10)
    /\ hr = 0 /\ mn = 0
    /\ rtc = <<2099, 10, day - 1, 23, 0>>

\* C15: under every interleaving of the timer's ticks with the loop the
\* handler's write index stays within the buffer (at most N), a tick that
\* fires after the loop saw the buffer full and before the timer is
\* deinitialised included, and when the loop sees the buffer full all N
\* samples of the second are stored.
C15_IndexInBuffer ==
    /\ samples.index <= N
    /\ pc = "full" => samples.fresh = 1..N

\* how often a history holds its latest entry
LatestCount(h) == IF h = <<>> THEN 0 ELSE PyCount(h, h[Len(h)])

\* new is old trimmed to its last 4 entries with one value appended
AppendedTo(old, new) ==
    /\ new # <<>>
    /\ new # old
    /\ new = PyLast(old, 4) \o <<new[Len(new)]>>

\* C16: under the primary rule (in a cycle that ends with the shortcut's
\* condition false), when a value is appended to the history of a field
\* that is not matched, after trimming to the last 4, the field's match
\* flag is set in that step if and only if the appended value then occurs
\* exactly 3 times in the history; and at the end of every cycle no
\* unmatched field's history holds its latest value 3 or more times.
C16_MatchedAtThirdOccurrence ==
    /\ [][\A i \in 1..Len(match) :
            (/\ ~match[i]
             /\ AppendedTo(Hists(proto, Cur)[i], Hists(proto, Cur)[i]')
             /\ ~ShortcutCond(proto, Cur)')
            => (match'[i] <=> LatestCount(Hists(proto, Cur)[i]') = 3)]_vars
    /\ [](\A i \in 1..Len(match) :
            ~match[i] => LatestCount(Hists(proto, Cur)[i]) < 3)

\* one field is matched with exactly 3 agreeing entries while another, with
\* 2 agreeing entries, is not
C16_ThreeMatchedTwoNot ==
    /\ ~ShortcutCond(proto, Cur)
    /\ \E i, j \in 1..Len(match) :
        /\ match[i] /\ LatestCount(Hists(proto, Cur)[i]) = 3
        /\ ~match[j] /\ LatestCount(Hists(proto, Cur)[j]) = 2

\* the populated and parity checks of the hour & minute block, on the
\* buffers as shifted (DCF77 decodes tcA reversed)
TimeChecksPass(p, a, b) ==
    IF p = "dcf77"
    THEN /\ PyAt(Reversed(a), 38) # " "
         /\ Ones1(PySlice(Reversed(a), 24, 31)) % 2 = 0
         /\ Ones1(PySlice(Reversed(a), 31, 39)) % 2 = 0
    ELSE IF p = "msf"
    THEN /\ PyAt(a, -21) # " "
         /\ (Ones1(PySlice(a, -21, -8)) + Int2(<<PyAt(b, -3)>>)) % 2 = 1
    ELSE /\ PyAt(a, -60) # " "
         /\ Ones1(PySlice(a, -49, -42) \o <<PyAt(a, -25)>>) % 2 = 0
         /\ Ones1(PySlice(a, -60, -52) \o <<PyAt(a, -24)>>) % 2 = 0

\* every flag that this step set was set by the primary rule
SetByPrimaryRule ==
    \A i \in 1..Len(match) :
        (match'[i] /\ ~match[i]) => LatestCount(Hists(proto, Cur)[i]') = 3

\* C17: in a marker cycle whose hour/minute block passes its populated and
\* parity checks, every match flag is set by the shortcut exactly when every
\* non-time history then holds at least 2 entries and one distinct value;
\* with a history of fewer than 2 entries or of two distinct values, and in
\* a cycle whose hour/minute checks fail, flags are set by the primary rule
\* only.
C17_ShortcutExactly ==
    [][MarkerTail' =>
         IF TimeChecksPass(proto, ShiftedA', tcB') /\ ShortcutCond(proto, Cur)'
         THEN All(match')
         ELSE SetByPrimaryRule]_vars

\* the shortcut matched every field on histories of two equal entries, in a
\* cycle that appended a minute-of-day and did not set the clock
C17_MatchedOnTwo ==
    /\ TimeAppended
    /\ pc = "loop"
    /\ HistsExactly(2)
    /\ ShortcutCond(proto, Cur)
    /\ All(match)

\* the last two entries of the minute-of-day history agree
LastTwoAgree(h) == Len(h) >= 2 /\ h[Len(h)] = h[Len(h) - 1]

\* C18: with every other field matched, a minute-of-day that was just
\* appended is accepted (the loop is left to set the clock) when the last
\* two entries of its history agree or when it occurs at least 3 times in
\* the history, and in no other case.
C18_AcceptedOnLastTwo ==
    (TimeAppended /\ All(match)) =>
        ((LastTwoAgree(mods) \/ PyCount(mods, mod) >= 3) <=> pc # "loop")

\* the entries of a history, each advanced by n minutes
Advanced(h, n) == [i \in 1..Len(h) |-> h[i] + n]

\* C19: when a valid minute-of-day is appended, every prior entry of the
\* history is first advanced by floor(elapsed/60) and elapsed is reset to 0;
\* a frame appended 60 seconds after the previous one and carrying the next
\* minute, across 23:59 -> 00:00 as well, leaves the last two entries equal;
\* every entry of the history stays in 0..1439.
C19_ModsProjected ==
    /\ [][TimeAppended' =>
            /\ mods' = PyLast(Advanced(mods, (elapsed + 1) \div 60), 4) \o <<mod'>>
            /\ (/\ mods # <<>>
                /\ elapsed + 1 = 60
                /\ mod' = (mods[Len(mods)] + 1) % 1440)
               => LastTwoAgree(mods')]_vars
    /\ [](\A i \in 1..Len(mods) : mods[i] \in 0..1439)

\* every candidate history of the protocol, the minute-of-day's included
AllHists == Hists(proto, Cur) \o <<mods>>

\* C20: every candidate history (year, month, day, DST, day of year and
\* minute-of-day) holds at most 5 entries in every reachable state: a
\* history changes only by an append to its last 4 entries (after which the
\* rollover reset may keep the last entry only) or by that reset, and a
\* history seeded from the RTC holds exactly one entry when the loop is
\* entered.
C20_HistoriesBounded ==
    /\ [](\A i \in 1..Len(AllHists) : Len(AllHists[i]) <= 5)
    /\ [][\A i \in 1..Len(AllHists) :
            \/ AllHists[i]' = AllHists[i]
            \/ Len(AllHists[i]') = (IF Len(AllHists[i]) > 4 THEN 4
                                    ELSE Len(AllHists[i])) + 1
            \/ AllHists[i]' = PyLast(AllHists[i]', 1)]_vars
    /\ (~tx.sc.cold => \A i \in 1..Len(AllHists) : Len(AllHists[i]) = 1)

\* a full history of days lost its oldest entry, the seed taken from the
\* RTC, to the append of a fifth received day, while the history of minutes
\* is full as well
C20_FullHistoryTrimmed ==
    /\ ~tx.sc.cold
    /\ Len(dys) = 5
    /\ \A i \in 1..5 : dys[i] # GmTime(tx.sc.now)[3]
    /\ Len(mods) = 5

\* the fixed lengths of the shift buffers tcA and tcB
BufferLengths(p) ==
    IF p = "dcf77" THEN <<45, 6>>
    ELSE IF p = "jjy" THEN <<60, 8>>
    ELSE <<45, 8>>

\* a buffer holds ' ', '0' and '1' only, and its blanks form a prefix
BlanksFirst(s) ==
    /\ \A i \in 1..Len(s) : s[i] \in {" ", "0", "1"}
    /\ \A i \in 1..Len(s) : \A j \in i..Len(s) : s[j] = " " => s[i] = " "

\* C21: at the start of every iteration of the decode loop each shift
\* buffer has its protocol's length (DCF77 45 and 6, JJY 60 and 8, MSF 45
\* and 8), holds only ' ', '0' and '1' with the blanks as a prefix, and is
\* in arrival order: a second after which the loop continues, a marker
\* second of DCF77 included, has dropped the oldest character of each buffer
\* and appended one bit, 0 or 1.
C21_BuffersShift ==
    /\ [](pc = "loop" =>
            /\ <<Len(tcA), Len(tcB)>> = BufferLengths(proto)
            /\ BlanksFirst(tcA)
            /\ BlanksFirst(tcB))
    /\ [][pc' = "loop" =>
            \E x, y \in {"0", "1"} :
                /\ tcA' = Tail(tcA) \o <<x>>
                /\ tcB' = Tail(tcB) \o <<y>>]_vars

\* DCF77 decoded a full buffer at a marker and goes on with the next second
C21_ContinuedAfterMarker ==
    /\ proto = "dcf77"
    /\ pc = "loop"
    /\ MarkerTail
    /\ \A i \in 1..Len(tcA) : tcA[i] # " "
    /\ mod # Unbound

\* the fields of a frame, as positions (from 1, oldest first) of the shift
\* buffers in arrival order: the position the blank guard tests, the
\* positions of tcA and of tcB that decoding the field reads, and the names
\* the decoded numbers are assigned to
FieldsRead(p) ==
    IF p = "dcf77"
    THEN <<[guard |-> 22, a |-> 22..45, b |-> {}, to |-> <<yr, mon, dy>>],
           [guard |-> 3, a |-> 3..4, b |-> {}, to |-> <<ds>>],
           [guard |-> 7, a |-> 7..21, b |-> {}, to |-> <<hr, mn>>]>>
    ELSE IF p = "msf"
    THEN <<[guard |-> 3, a |-> 3..10, b |-> {3}, to |-> <<yr>>],
           [guard |-> 11, a |-> 11..21, b |-> {4}, to |-> <<mon, dy>>],
           [guard |-> 25, a |-> 25..37, b |-> {6}, to |-> <<hr, mn>>]>>
    ELSE <<[guard |-> 41, a |-> 41..48, b |-> {}, to |-> <<yr>>],
           [guard |-> 22, a |-> (22..23) \cup (25..28) \cup (30..33),
            b |-> {}, to |-> <<dy>>],
           [guard |-> 1, a |-> (1..8) \cup (12..18) \cup {36, 37},
            b |-> {}, to |-> <<hr, mn>>]>>

\* every character that decoding field g reads is '0' or '1'
Populated(g, a, b) ==
    /\ \A i \in g.a : a[i] \in {"0", "1"}
    /\ \A i \in g.b : b[i] \in {"0", "1"}

\* C22: at a marker a field is decoded (its bits converted to numbers and
\* its parity evaluated) only when every character of its data bits and of
\* its parity bits is '0' or '1': the field's single blank guard passes only
\* then, and with a blank among them the names its numbers are assigned to
\* keep their values; so no blank is ever converted to a number, however
\* many seconds were received.
C22_DecodedWhenPopulated ==
    /\ [](\A k \in 1..Len(FieldsRead(proto)) :
            ShiftedA[FieldsRead(proto)[k].guard] # " "
                => Populated(FieldsRead(proto)[k], ShiftedA, tcB))
    /\ [][MarkerTail' =>
            \A k \in 1..Len(FieldsRead(proto)) :
                ~Populated(FieldsRead(proto)[k], ShiftedA', tcB')
                    => FieldsRead(proto)[k].to' = FieldsRead(proto)[k].to]_vars

\* DCF77 at a first marker that finds between 24 and 38 seconds received:
\* the date is decoded while the oldest of the hour and minute bits is
\* still blank
C22_DateBeforeTime ==
    /\ proto = "dcf77"
    /\ MarkerTail
    /\ pc = "loop"
    /\ tcA[7] = " "
    /\ tcA[22] # " "
    /\ yr # Unbound
    /\ hr = Unbound

\* the populated and parity checks of the date fields, on the buffers as
\* shifted: DCF77 year, month and day share one; MSF has one for the year
\* and one for month and day
DateChecksPass(p, a, b) ==
    IF p = "dcf77"
    THEN {1 : x \in {c \in {0} : /\ PyAt(Reversed(a), 23) # " "
                                 /\ Ones1(PySlice(Reversed(a), 0, 24)) % 2 = 0}}
         \cup
         {2 : x \in {c \in {0} : /\ PyAt(Reversed(a), 42) # " "
                                 /\ Ones1(PySlice(Reversed(a), 41, 43)) % 2 = 1}}
    ELSE {1 : x \in {c \in {0} :
                /\ PyAt(a, -43) # " "
                /\ (Ones1(PySlice(a, -43, -35)) + Int2(<<PyAt(b, -6)>>)) % 2 = 1}}
         \cup
         {2 : x \in {c \in {0} :
                /\ PyAt(a, -35) # " "
                /\ (Ones1(PySlice(a, -35, -24)) + Int2(<<PyAt(b, -5)>>)) % 2 = 1}}

\* a marker-matched cycle of DCF77 or MSF in which every check fails
AllChecksFail ==
    /\ proto \in {"dcf77", "msf"}
    /\ MarkerTail'
    /\ DateChecksPass(proto, ShiftedA', tcB') = {}
    /\ ~TimeChecksPass(proto, ShiftedA', tcB')

\* what such a cycle leaves alone: the histories, the match flags, the
\* success flag and the clock; elapsed counts the second
CycleDiscarded ==
    /\ UNCHANGED <<yrs, mons, dys, dsts, doys, mods, match, rc_sync, rtc>>
    /\ elapsed' = elapsed + 1

\* C23 (as stated): DCF77 and MSF: a marker-matched cycle in which every
\* parity check fails leaves the histories, the minute-of-day history, the
\* match flags and the success flag unchanged, writes no clock, and the
\* decode loop continues with the next second.
C23_FailedCycleContinues ==
    [][AllChecksFail => (CycleDiscarded /\ pc' = "loop")]_vars

\* C23 (amended): DCF77 and MSF: a marker-matched cycle in which every
\* parity check fails leaves the histories, the minute-of-day history, the
\* match flags and the success flag unchanged and writes no clock; the
\* decode loop continues with the next second unless that second is the one
\* in which elapsed exceeds the timeout, and then the loop ends without
\* success.
C23_FailedCycleDiscarded ==
    [][AllChecksFail =>
         /\ CycleDiscarded
         /\ pc' = IF elapsed' > timeout * 60 THEN "timeout" ELSE "loop"]_vars

\* a full buffer was decoded at a marker, a minute and more into the run,
\* and failed every check; the loop goes on
C23_NoisyMinuteDiscarded ==
    /\ proto \in {"dcf77", "msf"}
    /\ pc = "loop"
    /\ MarkerTail
    /\ secs > 60
    /\ elapsed = secs
    /\ DateChecksPass(proto, tcA, tcB) = {}
    /\ ~TimeChecksPass(proto, tcA, tcB)
    /\ \A i \in 1..Len(tcA) : tcA[i] # " "

\* v is (sum(data)/len(data) - sh) % 1000, rounded to a nearest integer
IsRoundedPhase(v, data, sh) ==
    /\ v * Len(data) - ((Sum(data) - sh * Len(data)) % (1000 * Len(data)))
          \in -(Len(data) \div 2)..(Len(data) \div 2)
       \/ 2 * (v * Len(data) - ((Sum(data) - sh * Len(data)) % (1000 * Len(data))))
          \in {-Len(data), Len(data)}

\* C24: the estimator uses the list shifted by 500 ms, with shift = 500, if
\* and only if after the outlier filtering of both lists the shifted list
\* holds strictly more samples than the unshifted one; on a tie it uses the
\* unshifted list with shift = 0; the result is the mean of the list used
\* minus the shift, reduced mod 1000 and rounded.
C24_ShiftedOnlyIfMore ==
    [][pc' = "enter" =>
         /\ shift' = IF Len(Cleaned(shifts)) > Len(Cleaned(deltas))
                     THEN 500 ELSE 0
         /\ deltas' = Sorted(IF shift' = 500 THEN Cleaned(shifts)
                             ELSE Cleaned(deltas))
         /\ IsRoundedPhase(delta_t', deltas', shift')]_vars

\* the shifted list kept all its 10 samples (499..501, edges at 999, 0 and
\* 1 ms) and was used: the unshifted list lost some to the filter
C24_ShiftedUsed ==
    /\ pc = "enter"
    /\ shift = 500
    /\ Len(deltas) = 10
    /\ deltas = Sorted(shifts)
    /\ <<deltas[1], deltas[10]>> = <<499, 501>>

\* C25: the measurement window is extended exactly when the first window of
\* 16 s has collected more than 20 and fewer than 32 edges; the extension
\* happens at most once in a run, its edges are added to those of the first
\* window, and after it the run neither aborts for noise nor extends again,
\* whatever the total number of edges.
C25_ExtendedOnce ==
    /\ [][(pc = "window1" /\ pc' # "window1") =>
            /\ pc' = "window2" <=> (20 < Len(deltas) /\ Len(deltas) < 32)
            /\ UNCHANGED <<deltas, shifts>>]_vars
    /\ [][pc' = "window2" => pc \in {"window1", "window2"}]_vars
    /\ [][pc = "window2" =>
            /\ pc' \in {"window2", "estimate"}
            /\ SubSeq(deltas', 1, Len(deltas)) = deltas
            /\ SubSeq(shifts', 1, Len(shifts)) = shifts]_vars
    /\ [][period = 64 => period' = 64]_vars
    /\ [](period = 64 => (~abort /\ pc \notin {"window1", "exit"}))

\* an extended window ended with more edges than the 32 that abort the
\* first window, and the phase is estimated
C25_ExtendedAboveLimit ==
    /\ pc = "estimate"
    /\ period = 64
    /\ Len(deltas) > 32
    /\ ~abort

\* C26: MSF: a decode with every field confirmed whose local time lies
\* strictly between 00:00 and 02:00 on the last Sunday of October of the
\* decoded year (every minute of the repeated hour 01:00..01:59 does) writes
\* no clock and reports no success.
C26_RepeatedHourDeclined ==
    (/\ proto = "msf"
     /\ pc # "loop"
     /\ month = 10
     /\ day = LastSunday(year, 10)
     /\ 0 < hr * 60 + mn
     /\ hr * 60 + mn < 120)
    => (rtc = <<>> /\ ~rc_sync /\ pc = "ambig")

\* 00:59 on the last Sunday of October 2050: the decode is declined
C26_DeclinedBeforeOne ==
    /\ proto = "msf"
    /\ pc = "ambig"
    /\ year = 2050
    /\ month = 10
    /\ day = LastSunday(2050, 10)
    /\ <<hr, mn>> = <<0, 59>>
    /\ rtc = <<>>

C28_PairsFromOneEdge ==
    /\ pc \notin {"poll_shifts"} => Len(deltas) = Len(shifts)
    /\ \A i \in 1..Len(shifts) : shifts[i] = (deltas[i] + 500) % 1000

\* C29: for every accepted year 2024..2099 and day-of-year 1..366 the JJY
\* conversion ends without reading past the month table and gives the
\* calendar date of that day of that year, month in 1..12, day in 1..31.
C29_DoyToDate ==
    pc # "loop" =>
        /\ pc = "done"
        /\ month \in 1..12
        /\ day \in 1..31
        /\ day <= DaysInMonth(year, month)
        /\ DaysBeforeMonth(year, month) + day = doy

\* C30: every measurement that does not abort for noise is followed by a
\* phase offset, with zero or one edge collected as well: the estimate
\* never ends in a division by zero.
C30_EstimateCompletes ==
    [][pc = "estimate" => (pc' = "enter" /\ delta_t' \in Nat)]_vars

\* C31: with a fixed phase offset in 0..999 configured, 0 included, the
\* edge handler is never installed, no edge is measured and the phase
\* offset in use stays the configured one up to the end of the run.
C31_OverrideSkipsAcquisition ==
    [][handler' = "None" /\ deltas' = <<>> /\ delta_t' = delta_t]_vars

\* C32: the clock is written at most once in a run, only after acceptance
\* (every match flag set, the minute-of-day confirmed) and only on a read
\* of the millisecond counter equal to the phase offset; the success flag
\* is raised by the write and by nothing else, so at the end it is true
\* exactly when the clock was written; after the write no further second
\* is sampled.
C32_WrittenOnceOnPhase ==
    /\ [][rtc' # rtc =>
            /\ ~rc_sync /\ rc_sync'
            /\ pc = "set_rtc" /\ pc' = "done"
            /\ ticks = delta_t
            /\ All(match)
            /\ \/ Len(mods) > 1 /\ Cardinality(PySet(mods)) = 1
               \/ PyCount(mods, mod) >= 3]_vars
    /\ [][rc_sync' # rc_sync => rtc' # rtc]_vars
    /\ [][pc' = "done" => rtc' # rtc]_vars
    /\ [][pc = "done" => secs' = secs]_vars
    /\ [](pc \in {"timeout", "ambig", "crash"} => ~rc_sync)
    /\ [](pc = "done" => rc_sync)

\* the clock was written, on a read equal to the phase offset, in a run
\* that sampled more than a minute
C32_WrittenAfterSpin ==
    pc = "done" /\ rc_sync /\ rtc # <<>> /\ ticks = delta_t /\ secs > 60

====
